---- MODULE Spec2Model ----
(***************************************************************************)
(* Model of the business finder backend: the duplicate filter and the      *)
(* e-mail extraction of business_finder.py, the search and save routes of  *)
(* app.py, the three provider clients (Google Places, Yelp Fusion,         *)
(* OpenStreetMap) with their rate limiting, and the cache of               *)
(* services/business_service.py.                                           *)
(*                                                                         *)
(* Python values are tagged tuples: S(s) is a str (s is a TLA+ string, or  *)
(* a tuple of characters where the code lower-cases or concatenates it),   *)
(* N(n) is a number (ratings in tenths).                                   *)
(***************************************************************************)
EXTENDS Integers, Sequences, FiniteSets, TLC

(* ------------------------------------------------------------------ *)
(* Bounds                                                             *)
(* ------------------------------------------------------------------ *)
MaxLen == 3

(* ------------------------------------------------------------------ *)
(* Python values                                                      *)
(* ------------------------------------------------------------------ *)
S(s) == <<"str", s>>
N(n) == <<"num", n>>

None == <<"none">>

\* bool(v): '', 0 and None are falsy, everything else is truthy
Truthy(v) ==
  IF v[1] = "str" THEN Len(v[2]) > 0
  ELSE IF v[1] = "num" THEN v[2] # 0
  ELSE FALSE

LowerChar(c) ==
  CASE c = "A" -> "a"
    [] c = "B" -> "b"
    [] c = "C" -> "c"
    [] c = "X" -> "x"
    [] OTHER -> c

\* str.lower() on a tuple of characters
Lower(s) == [i \in 1..Len(s) |-> LowerChar(s[i])]

FieldNames ==
  << "Business Name", "Category", "Address", "City", "Country",
     "Phone Number", "Email", "Website", "Google Rating",
     "Number of Reviews", "Latitude", "Longitude", "API Source" >>

Fields == {FieldNames[i] : i \in 1..Len(FieldNames)}

GoogleName == "Google Places API"
OSMName    == "OpenStreetMap API"
YelpName   == "Yelp Fusion API"

\* a business_data dictionary
Business(nm, cat, addr, city, ctry, phone, email, web, rating, revs, lat, lon, src) ==
  ("Business Name" :> nm) @@ ("Category" :> cat) @@
  ("Address" :> addr) @@ ("City" :> city) @@ ("Country" :> ctry) @@
  ("Phone Number" :> phone) @@ ("Email" :> email) @@ ("Website" :> web) @@
  ("Google Rating" :> rating) @@ ("Number of Reviews" :> revs) @@
  ("Latitude" :> lat) @@ ("Longitude" :> lon) @@ ("API Source" :> src)

(* ------------------------------------------------------------------ *)
(* dict with insertion order: a sequence of <<key, value>> entries    *)
(* ------------------------------------------------------------------ *)
DictHas(d, k) == \E i \in 1..Len(d) : d[i][1] = k

DictGet(d, k) == d[CHOOSE i \in 1..Len(d) : d[i][1] = k][2]

\* variant: an existing key is deleted and inserted again, so it goes last
DictSet_MoveToEnd(d, k, v) ==
  Append(SelectSeq(d, LAMBDA e : e[1] # k), <<k, v>>)

\* d[k] = v : an existing key keeps its position, a new key goes last
DictSet(d, k, v) ==
  IF DictHas(d, k)
    THEN [i \in 1..Len(d) |-> IF d[i][1] = k THEN <<k, v>> ELSE d[i]]
    ELSE Append(d, <<k, v>>)

\* variant: the values in reverse insertion order
DictValues_Reversed(d) == [i \in 1..Len(d) |-> d[Len(d) + 1 - i][2]]

\* list(d.values())
DictValues(d) == [i \in 1..Len(d) |-> d[i][2]]

(* ------------------------------------------------------------------ *)
(* business_finder.py : the duplicate filter                          *)
(* ------------------------------------------------------------------ *)
RECURSIVE CountTruthy(_, _)
CountTruthy(b, n) ==
  IF n = 0 THEN 0
  ELSE CountTruthy(b, n - 1) + (IF Truthy(b[FieldNames[n]]) THEN 1 ELSE 0)

\* sum(1 for v in business.values() if v)
NonEmptyCount(b) == CountTruthy(b, Len(FieldNames))

\* variant: the final comparison of the counts is not strict
_business_has_more_info_NotStrict(new_business, existing_business) ==
  \/ Truthy(new_business["Email"]) /\ ~Truthy(existing_business["Email"])
  \/ Truthy(new_business["Phone Number"])
       /\ ~Truthy(existing_business["Phone Number"])
  \/ new_business["API Source"] = S(GoogleName)
       /\ existing_business["API Source"] # S(GoogleName)
  \/ NonEmptyCount(new_business) >= NonEmptyCount(existing_business)

_business_has_more_info(new_business, existing_business) ==
  LET new_count      == NonEmptyCount(new_business)
      existing_count == NonEmptyCount(existing_business)
  IN IF Truthy(new_business["Email"]) /\ ~Truthy(existing_business["Email"])
       THEN TRUE
     ELSE IF Truthy(new_business["Phone Number"])
             /\ ~Truthy(existing_business["Phone Number"])
       THEN TRUE
     ELSE IF new_business["API Source"] = S(GoogleName)
             /\ existing_business["API Source"] # S(GoogleName)
       THEN TRUE
     ELSE new_count > existing_count

\* variant: the key is not lower-cased
DedupKey_CaseSensitive(business) ==
  business["Business Name"][2] \o <<"|">> \o business["Address"][2]

\* f"{business['Business Name']}|{business['Address']}".lower()
DedupKey(business) ==
  Lower(business["Business Name"][2] \o <<"|">> \o business["Address"][2])

\* variant: a colliding record is stored with its empty fields filled from
\* the record it replaces
DedupStep_Merging(unique, business) ==
  LET key == DedupKey(business)
  IN IF ~DictHas(unique, key) THEN DictSet(unique, key, business)
     ELSE IF _business_has_more_info(business, DictGet(unique, key))
       THEN DictSet(unique, key,
                    [f \in DOMAIN business |->
                       IF Truthy(business[f]) THEN business[f]
                       ELSE DictGet(unique, key)[f]])
     ELSE unique

\* variant: the first record of an identity is never replaced
DedupStep_KeepFirst(unique, business) ==
  LET key == DedupKey(business)
  IN IF ~DictHas(unique, key) THEN DictSet(unique, key, business)
     ELSE unique

\* one iteration of the loop of filter_duplicate_businesses
DedupStep(unique, business) ==
  LET key == DedupKey(business)
  IN IF ~DictHas(unique, key)
        \/ _business_has_more_info(business, DictGet(unique, key))
       THEN DictSet(unique, key, business)
       ELSE unique

RECURSIVE DedupFold(_, _)
DedupFold(bs, n) ==
  IF n = 0 THEN <<>> ELSE DedupStep(DedupFold(bs, n - 1), bs[n])

filter_duplicate_businesses(bs) == DictValues(DedupFold(bs, Len(bs)))

(* ------------------------------------------------------------------ *)
(* Inputs of the duplicate filter                                     *)
(* ------------------------------------------------------------------ *)
Rec(name, address, email, phone, website, reviews, source) ==
  Business(S(name), S("Restaurant"), S(address), S("Rome"), S("Italy"),
           S(phone), S(email), S(website), S(""), reviews,
           N(419), N(125), S(source))

SourceAndSite == { <<GoogleName, "">>, <<OSMName, "http://w">>, <<OSMName, "">> }

Catalog ==
  { Rec(<<"A", "b">>, <<"x">>, e, p, sw[2], S(""), sw[1]) :
      e \in {"", "e@w"}, p \in {"", "06"}, sw \in SourceAndSite }
  \cup
  { Rec(<<"a", "B">>, <<"X">>, "", "", "http://w", N(0), OSMName),
    Rec(<<"c">>, <<>>, "", "06", "", S("12"), YelpName) }

Inputs == UNION { [1..n -> Catalog] : n \in 0..MaxLen }

\* filter_duplicate_businesses
VARIABLES businesses, unique_businesses, d_i, d_pc, d_result

\* app.py : configuration, the request being served and the module state
VARIABLES GOOGLE_API_KEY, YELP_API_KEY, category, api_source, api, a_pc,
          cat_i, all_businesses, app_businesses, last_search_results,
          response, events

\* business_finder.py : one call of search_businesses on a provider instance
VARIABLES provider, p_pc, p_category, radius_km, min_rating, web,
          request_count, requests, responses, search_result, places,
          place_i, found, p_out

\* business_finder.py : the clock and the rate-limit state of an instance
VARIABLES now, last_request_time

\* business_finder.py : one call of extract_email_from_website on its own
VARIABLES e_url, e_email, e_pc

\* app.py, business_finder.py : the provider instances constructed in one
\* process, and the instance that `api` names in each search request
VARIABLES instances, search_api

\* app.py : the answer of POST /api/save and the file it leaves
VARIABLES save_response, saved_file

\* services/business_service.py : the module-level cache and the calls of
\* get_businesses so far
VARIABLES _api_cache, c_log

rate_vars == <<now, last_request_time>>

save_vars == <<save_response, saved_file>>

cache_vars == <<_api_cache, c_log>>

inst_vars == <<instances, search_api>>

email_vars == <<e_url, e_email, e_pc>>

\* e-mail extraction on its own, the provider instances, the save route
\* and the service cache
aux_vars == <<email_vars, inst_vars, save_vars, cache_vars>>

dedup_vars == <<businesses, unique_businesses, d_i, d_pc, d_result>>

prov_vars == <<provider, p_pc, p_category, radius_km, min_rating, web,
               request_count, requests, responses, search_result, places,
               place_i, found, p_out>>

app_vars == <<GOOGLE_API_KEY, YELP_API_KEY, category, api_source, api, a_pc,
              cat_i, all_businesses, app_businesses, last_search_results,
              response, events>>

vars == <<dedup_vars, app_vars, prov_vars, rate_vars, aux_vars>>

\* the state of a part of the program that a specification does not run
DedupIdle ==
  /\ businesses = <<>>
  /\ unique_businesses = <<>>
  /\ d_i = 1
  /\ d_pc = "idle"
  /\ d_result = <<>>

ProvIdle ==
  /\ provider = "none"
  /\ p_pc = "idle"
  /\ p_category = ""
  /\ radius_km = 0
  /\ min_rating = 0
  /\ web = <<>>
  /\ request_count = 0
  /\ requests = <<>>
  /\ responses = <<>>
  /\ search_result = <<>>
  /\ places = <<>>
  /\ place_i = 1
  /\ found = <<>>
  /\ p_out = [raised |-> FALSE, returned |-> FALSE, list |-> <<>>]

RateIdle ==
  /\ now = 0
  /\ last_request_time = 0

EmailIdle ==
  /\ e_url = <<"none">>
  /\ e_email = <<"none">>
  /\ e_pc = "idle"

InstIdle ==
  /\ instances = <<>>
  /\ search_api = <<>>

\* no save request served yet
NoFile == [name |-> <<>>, rows |-> <<>>]

SaveIdle ==
  /\ save_response = [status |-> 0]
  /\ saved_file = NoFile

CacheIdle ==
  /\ _api_cache = <<>>
  /\ c_log = <<>>

AuxIdle ==
  /\ EmailIdle
  /\ InstIdle
  /\ SaveIdle
  /\ CacheIdle

AppIdle ==
  /\ GOOGLE_API_KEY = ""
  /\ YELP_API_KEY = ""
  /\ category = ""
  /\ api_source = ""
  /\ api = "none"
  /\ a_pc = "idle"
  /\ cat_i = 1
  /\ all_businesses = <<>>
  /\ app_businesses = <<>>
  /\ last_search_results = <<>>
  /\ response = [status |-> 0]
  /\ events = <<>>

(* ------------------------------------------------------------------ *)
(* The duplicate filter as a state machine                            *)
(* ------------------------------------------------------------------ *)
DedupInit ==
  /\ RateIdle
  /\ AuxIdle
  /\ businesses \in Inputs
  /\ unique_businesses = <<>>
  /\ d_i = 1
  /\ d_pc = "loop"
  /\ d_result = <<>>
  /\ AppIdle
  /\ ProvIdle

\* for business in businesses: ...
DedupIterate ==
  /\ d_pc = "loop"
  /\ d_i <= Len(businesses)
  /\ unique_businesses' = DedupStep(unique_businesses, businesses[d_i])
  /\ d_i' = d_i + 1
  /\ UNCHANGED <<businesses, d_pc, d_result>>
  /\ UNCHANGED <<app_vars, prov_vars, rate_vars, aux_vars>>

\* return list(unique_businesses.values())
DedupReturn ==
  /\ d_pc = "loop"
  /\ d_i > Len(businesses)
  /\ d_result' = DictValues(unique_businesses)
  /\ d_pc' = "done"
  /\ UNCHANGED <<businesses, unique_businesses, d_i>>
  /\ UNCHANGED <<app_vars, prov_vars, rate_vars, aux_vars>>

DedupNext == DedupIterate \/ DedupReturn

SpecDedup == DedupInit /\ [][DedupNext]_vars

(* ------------------------------------------------------------------ *)
(* Properties of the duplicate filter                                 *)
(* ------------------------------------------------------------------ *)
\* the dedup identity as the specification words it
IdentityOf(b) ==
  Lower(b["Business Name"][2]) \o <<"|">> \o Lower(b["Address"][2])

HasEmail(b) == Len(b["Email"][2]) > 0
HasPhone(b) == Len(b["Phone Number"][2]) > 0
IsPremium(b) == b["API Source"][2] = GoogleName
Populated(b) == Cardinality({f \in Fields : Truthy(b[f])})

SurvivorsOf(k) == {j \in 1..Len(d_result) : IdentityOf(d_result[j]) = k}

\* C1: the output of the duplicate filter holds exactly one record per dedup
\* identity: no two output records have the same lower-cased name|address
\* key and every identity of the input has exactly one output record.
C1_OnePerIdentity ==
  d_pc = "done" =>
    /\ \A i, j \in 1..Len(d_result) :
         i # j => IdentityOf(d_result[i]) # IdentityOf(d_result[j])
    /\ \A i \in 1..Len(businesses) :
         Cardinality(SurvivorsOf(IdentityOf(businesses[i]))) = 1

C1_Witness ==
  /\ d_pc = "done"
  /\ Len(d_result) = 2
  /\ \E i, j \in 1..Len(businesses) :
       /\ businesses[i]["Business Name"] # businesses[j]["Business Name"]
       /\ IdentityOf(businesses[i]) = IdentityOf(businesses[j])

TwoColliding ==
  /\ d_pc = "done"
  /\ Len(businesses) = 2
  /\ IdentityOf(businesses[1]) = IdentityOf(businesses[2])

\* C2: of two colliding records of which exactly one has a non-empty Email,
\* the emailed one is returned, in either input order and whatever the other
\* fields hold.
C2_EmailedSurvives ==
  TwoColliding =>
    \A i \in 1..2 :
      (HasEmail(businesses[i]) /\ ~HasEmail(businesses[3 - i]))
        => d_result = <<businesses[i]>>

\* C3: of two colliding records with equal email presence and equal phone
\* presence of which exactly one comes from the premium provider, the premium
\* record is returned, in either input order and whatever the other fields
\* hold.
C3_PremiumSurvives ==
  TwoColliding =>
    \A i \in 1..2 :
      ( /\ HasEmail(businesses[1]) = HasEmail(businesses[2])
        /\ HasPhone(businesses[1]) = HasPhone(businesses[2])
        /\ IsPremium(businesses[i]) /\ ~IsPremium(businesses[3 - i]) )
        => d_result = <<businesses[i]>>

\* C4: the duplicate filter is idempotent: filtering its own output returns
\* that output, same records in the same order.
C4_Idempotent ==
  d_pc = "done" => filter_duplicate_businesses(d_result) = d_result

C4_Witness ==
  /\ d_pc = "done"
  /\ Len(d_result) >= 2
  /\ Len(businesses) > Len(d_result)

FirstSeen(k) ==
  CHOOSE i \in 1..Len(businesses) :
    /\ IdentityOf(businesses[i]) = k
    /\ \A j \in 1..(i - 1) : IdentityOf(businesses[j]) # k

\* C5: the output lists the survivors in the order in which their identities
\* first occur in the input, also when a survivor was replaced by a later
\* colliding record.
C5_FirstSeenOrder ==
  d_pc = "done" =>
    /\ \A i \in 1..Len(d_result) :
         \E n \in 1..Len(businesses) :
           IdentityOf(businesses[n]) = IdentityOf(d_result[i])
    /\ \A i, j \in 1..Len(d_result) :
         i < j => FirstSeen(IdentityOf(d_result[i]))
                    < FirstSeen(IdentityOf(d_result[j]))

\* a survivor that replaced an earlier record stands before a record whose
\* identity was first seen between the two
C5_Witness ==
  /\ d_pc = "done"
  /\ Len(businesses) = 3
  /\ Len(d_result) = 2
  /\ d_result[1] = businesses[3]
  /\ d_result[2] = businesses[2]
  /\ businesses[1] # businesses[3]

RuleFavours(new, old) ==
  \/ HasEmail(new) /\ ~HasEmail(old)
  \/ HasPhone(new) /\ ~HasPhone(old)
  \/ IsPremium(new) /\ ~IsPremium(old)
  \/ Populated(new) > Populated(old)

\* C6: the duplicate filter is a left-to-right fold: a record with a new
\* identity is appended; a record whose identity has a survivor replaces it,
\* in place, iff it has an email and the survivor none, or a phone and the
\* survivor none, or is premium and the survivor is not, or has strictly more
\* populated fields; otherwise the survivor stays (first seen wins a tie).
C6_FoldStep ==
  (d_pc = "loop" /\ d_i <= Len(businesses)) =>
    LET new  == businesses[d_i]
        k    == IdentityOf(new)
        at   == {n \in 1..Len(unique_businesses) :
                   IdentityOf(unique_businesses[n][2]) = k}
    IN IF at = {}
         THEN DictValues(unique_businesses') =
                Append(DictValues(unique_businesses), new)
         ELSE \A n \in 1..Len(unique_businesses) :
                unique_businesses'[n][2] =
                  IF n \in at /\ RuleFavours(new, unique_businesses[n][2])
                    THEN new ELSE unique_businesses[n][2]

categories == <<"hotel", "restaurant", "bar", "cafe", "bakery", "nightclub">>

\* str.lower() on the category values a request carries
StrLower(s) ==
  CASE s = "All" -> "all"
    [] s = "Bar" -> "bar"
    [] OTHER -> s

\* str.capitalize() on the category values a provider receives
Capitalize(s) ==
  CASE s = "hotel" -> "Hotel"
    [] s = "restaurant" -> "Restaurant"
    [] s = "bar" -> "Bar"
    [] s = "Bar" -> "Bar"
    [] s = "cafe" -> "Cafe"
    [] s = "bakery" -> "Bakery"
    [] s = "nightclub" -> "Nightclub"
    [] s = "all" -> "All"
    [] s = "All" -> "All"
    [] OTHER -> s

RequestCategories == {"all", "All", "bar"}
RequestSources == {"google", "yelp", "osm", "bing", "Google"}
ConfiguredKeys == {"", "key"}

\* a record as the provider named p builds it for a search of category cat
Found(p, cat, name, phone) ==
  Business(S(name), S(Capitalize(cat)), S(<<"x">>), S("Rome"), S("Italy"),
           S(phone), S(""), S(""),
           IF p = GoogleName THEN N(45)
             ELSE IF p = YelpName THEN S(<<"4", ".", "5">>) ELSE S(""),
           IF p = GoogleName THEN N(12)
             ELSE IF p = YelpName THEN S(<<"1", "2">>) ELSE S(""),
           N(419), N(125), S(p))

\* what api.search_businesses(...) can do: return a list or raise
ProviderOutcomes(p, cat) ==
  { [raised |-> TRUE, list |-> <<>>],
    [raised |-> FALSE, list |-> <<>>],
    [raised |-> FALSE, list |-> <<Found(p, cat, <<"A", "b">>, "")>>],
    [raised |-> FALSE, list |-> <<Found(p, cat, <<"A", "b">>, ""),
                                  Found(p, cat, <<"a", "B">>, "06")>>] }

\* variant: the handler stamps its own name on the records it numbers
WithId_Restamped(b, n) ==
  [f \in DOMAIN b |-> IF f = "API Source" THEN S("app") ELSE b[f]]
    @@ ("id" :> S(<<"uuid", n>>))

\* business['id'] = str(uuid.uuid4())
WithId(b, n) == b @@ ("id" :> S(<<"uuid", n>>))

AppInit ==
  /\ DedupIdle
  /\ AuxIdle
  /\ RateIdle
  /\ ProvIdle
  /\ GOOGLE_API_KEY \in ConfiguredKeys
  /\ YELP_API_KEY \in ConfiguredKeys
  /\ category = ""
  /\ api_source = ""
  /\ api = "none"
  /\ a_pc = "idle"
  /\ cat_i = 1
  /\ all_businesses = <<>>
  /\ app_businesses = <<>>
  /\ last_search_results = <<>>
  /\ response = [status |-> 0]
  /\ events = <<>>

\* the except branch of the handler
Answer500 ==
  /\ response' = [status |-> 500]
  /\ a_pc' = "responded"

\* lines 54-58: the query parameters; int() or float() raises on a
\* malformed radius or minRating
AppRequest ==
  /\ a_pc = "idle"
  /\ \E c \in RequestCategories, src \in RequestSources, wellformed \in BOOLEAN :
       /\ category' = c
       /\ api_source' = src
       /\ IF wellformed
            THEN a_pc' = "select" /\ UNCHANGED response
            ELSE Answer500
  /\ UNCHANGED <<GOOGLE_API_KEY, YELP_API_KEY, api, cat_i, all_businesses,
                 app_businesses, last_search_results, events>>
  /\ UNCHANGED <<dedup_vars, prov_vars, rate_vars, aux_vars>>

\* variant: the paid provider is taken without a look at its key
SelectApi_KeyNotChecked(src, google_key, yelp_key) ==
  IF src = "google" THEN GoogleName
  ELSE IF src = "yelp" THEN YelpName
  ELSE OSMName

\* lines 61-67
SelectApi(src, google_key, yelp_key) ==
  IF src = "google" /\ google_key # "" THEN GoogleName
  ELSE IF src = "yelp" /\ yelp_key # "" THEN YelpName
  ELSE OSMName

\* lines 60-72: the provider instance and the branch on the category
AppSelect ==
  /\ a_pc = "select"
  /\ api' = SelectApi(api_source, GOOGLE_API_KEY, YELP_API_KEY)
  /\ a_pc' = IF StrLower(category) = "all" THEN "loop" ELSE "single"
  /\ UNCHANGED <<GOOGLE_API_KEY, YELP_API_KEY, category, api_source, cat_i,
                 all_businesses, app_businesses, last_search_results,
                 response, events>>
  /\ UNCHANGED <<dedup_vars, prov_vars, rate_vars, aux_vars>>

\* lines 79-86: the call of one category starts
AppCallCategory ==
  /\ a_pc = "loop"
  /\ cat_i <= Len(categories)
  /\ events' = Append(events, <<"call", categories[cat_i]>>)
  /\ a_pc' = "in_call"
  /\ UNCHANGED <<GOOGLE_API_KEY, YELP_API_KEY, category, api_source, api,
                 cat_i, all_businesses, app_businesses, last_search_results,
                 response>>
  /\ UNCHANGED <<dedup_vars, prov_vars, rate_vars, aux_vars>>

\* lines 81-89: the call returns and its list is appended, or it raises
AppCategoryReturns ==
  /\ a_pc = "in_call"
  /\ \E out \in ProviderOutcomes(api, categories[cat_i]) :
       IF out.raised
         THEN /\ events' = Append(events, <<"raise", categories[cat_i]>>)
              /\ Answer500
              /\ UNCHANGED all_businesses
         ELSE /\ events' = Append(events, <<"return", categories[cat_i], out.list>>)
              /\ all_businesses' = all_businesses \o out.list
              /\ a_pc' = "sleep"
              /\ UNCHANGED response
  /\ UNCHANGED <<GOOGLE_API_KEY, YELP_API_KEY, category, api_source, api,
                 cat_i, app_businesses, last_search_results>>
  /\ UNCHANGED <<dedup_vars, prov_vars, rate_vars, aux_vars>>

\* line 92: time.sleep(0.5), in tenths of a second
AppSleep ==
  /\ a_pc = "sleep"
  /\ events' = Append(events, <<"sleep", 5>>)
  /\ cat_i' = cat_i + 1
  /\ a_pc' = "loop"
  /\ UNCHANGED <<GOOGLE_API_KEY, YELP_API_KEY, category, api_source, api,
                 all_businesses, app_businesses, last_search_results,
                 response>>
  /\ UNCHANGED <<dedup_vars, prov_vars, rate_vars, aux_vars>>

\* line 95
AppFilterDuplicates ==
  /\ a_pc = "loop"
  /\ cat_i > Len(categories)
  /\ app_businesses' = filter_duplicate_businesses(all_businesses)
  /\ events' = Append(events, <<"dedupe">>)
  /\ a_pc' = "finish"
  /\ UNCHANGED <<GOOGLE_API_KEY, YELP_API_KEY, category, api_source, api,
                 cat_i, all_businesses, last_search_results, response>>
  /\ UNCHANGED <<dedup_vars, prov_vars, rate_vars, aux_vars>>

\* lines 99-104: the call of the single category starts
AppCallSingle ==
  /\ a_pc = "single"
  /\ events' = Append(events, <<"call", category>>)
  /\ a_pc' = "in_single"
  /\ UNCHANGED <<GOOGLE_API_KEY, YELP_API_KEY, category, api_source, api,
                 cat_i, all_businesses, app_businesses, last_search_results,
                 response>>
  /\ UNCHANGED <<dedup_vars, prov_vars, rate_vars, aux_vars>>

\* lines 99-104: the call returns its list, or it raises
AppSingleReturns ==
  /\ a_pc = "in_single"
  /\ \E out \in ProviderOutcomes(api, category) :
       IF out.raised
         THEN /\ events' = Append(events, <<"raise", category>>)
              /\ Answer500
              /\ UNCHANGED app_businesses
         ELSE /\ events' = Append(events, <<"return", category, out.list>>)
              /\ app_businesses' = out.list
              /\ a_pc' = "finish"
              /\ UNCHANGED response
  /\ UNCHANGED <<GOOGLE_API_KEY, YELP_API_KEY, category, api_source, api,
                 cat_i, all_businesses, last_search_results>>
  /\ UNCHANGED <<dedup_vars, prov_vars, rate_vars, aux_vars>>

\* lines 106-129: ids, the module-level holder and the answer
AppRespond ==
  /\ a_pc = "finish"
  /\ LET withids == [n \in 1..Len(app_businesses) |-> WithId(app_businesses[n], n)]
     IN /\ app_businesses' = withids
        /\ last_search_results' = withids
        /\ response' = [status |-> 200, results |-> withids, api |-> api]
  /\ a_pc' = "responded"
  /\ UNCHANGED <<GOOGLE_API_KEY, YELP_API_KEY, category, api_source, api,
                 cat_i, all_businesses, events>>
  /\ UNCHANGED <<dedup_vars, prov_vars, rate_vars, aux_vars>>

\* POST /api/save: the 'filename' of the request body; without one the
\* handler builds a timestamped name that ends in '.csv' (line 149)
SaveFilenames == { <<"r">>, <<"r", ".csv">>, <<"business_results_", "now", ".csv">> }

\* line 152: filename.endswith('.csv')
EndsWithCsv(filename) == Len(filename) > 0 /\ filename[Len(filename)] = ".csv"

\* the CSV row DictWriter makes of a record: its fieldnames in order
CsvRow(business) == [i \in 1..Len(FieldNames) |-> business[FieldNames[i]]]

\* the first record with a key outside the fieldnames, Len + 1 if none:
\* DictWriter (extrasaction 'raise') raises ValueError on it
RECURSIVE FirstWithExtraKey(_, _)
FirstWithExtraKey(rows, n) ==
  IF n > Len(rows) THEN n
  ELSE IF DOMAIN rows[n] \ Fields # {} THEN n
  ELSE FirstWithExtraKey(rows, n + 1)

\* lines 257-277: raises on an empty list before the file is opened;
\* otherwise writes the header, then the rows up to the first one that
\* DictWriter refuses
save_to_csv(rows) ==
  IF Len(rows) = 0 THEN [raised |-> TRUE, opened |-> FALSE, rows |-> <<>>]
  ELSE LET stop == FirstWithExtraKey(rows, 1)
       IN [raised |-> stop <= Len(rows),
           opened |-> TRUE,
           rows   |-> <<FieldNames>>
                        \o [n \in 1..(stop - 1) |-> CsvRow(rows[n])]]

\* lines 138-183: POST /api/save, served after the search was answered
AppSave ==
  /\ a_pc = "responded"
  /\ save_response.status = 0
  /\ \E given \in SaveFilenames :
       LET filename == IF EndsWithCsv(given) THEN given
                       ELSE Append(given, ".csv")
           written  == save_to_csv(last_search_results)
       IN /\ saved_file' = IF written.opened
                             THEN [name |-> filename, rows |-> written.rows]
                             ELSE NoFile
          /\ save_response' =
               IF written.raised THEN [status |-> 500]
               ELSE [status |-> 200, filename |-> filename,
                     count |-> Len(last_search_results)]
  /\ UNCHANGED app_vars
  /\ UNCHANGED <<dedup_vars, prov_vars, rate_vars, email_vars, inst_vars,
                 cache_vars>>

AppNext ==
  \/ AppRequest
  \/ AppSelect
  \/ AppCallCategory
  \/ AppCategoryReturns
  \/ AppSleep
  \/ AppFilterDuplicates
  \/ AppCallSingle
  \/ AppSingleReturns
  \/ AppRespond
  \/ AppSave

SpecApp == AppInit /\ [][AppNext]_vars

(* ------------------------------------------------------------------ *)
(* Properties of the search handler                                   *)
(* ------------------------------------------------------------------ *)
StripId(b) == [f \in Fields |-> b[f]]

Searched == a_pc = "responded" /\ api # "none"

CallsIn(log) == {n \in 1..Len(log) : log[n][1] = "call"}
DedupesIn(log) == {n \in 1..Len(log) : log[n][1] = "dedupe"}

RECURSIVE ReturnedUpTo(_, _)
ReturnedUpTo(log, n) ==
  IF n = 0 THEN <<>>
  ELSE ReturnedUpTo(log, n - 1)
         \o (IF log[n][1] = "return" THEN log[n][3] ELSE <<>>)

\* C7: a search with category 'all' calls the provider once for each of the
\* six categories, in order, each call starting after the previous one has
\* returned and the delay has passed; the results are concatenated and the
\* duplicate filter runs exactly once, after the last call.
C7_AllSearch ==
  (Searched /\ StrLower(category) = "all") =>
    /\ Len(events) = 3 * Len(categories) + 1
    /\ \A k \in 1..Len(categories) :
         /\ events[3 * k - 2] = <<"call", categories[k]>>
         /\ events[3 * k - 1][1] = "return"
         /\ events[3 * k - 1][2] = categories[k]
         /\ events[3 * k] = <<"sleep", 5>>
    /\ events[Len(events)] = <<"dedupe">>
    /\ Cardinality(DedupesIn(events)) = 1
    /\ all_businesses = ReturnedUpTo(events, Len(events))
    /\ response.status = 200
    /\ [n \in 1..Len(response.results) |-> StripId(response.results[n])]
         = filter_duplicate_businesses(all_businesses)

\* C8: a search with a single category calls the provider exactly once and
\* the collection it returns never holds two records with the same dedup
\* identity.
C8_SingleSearchDeduped ==
  (Searched /\ StrLower(category) # "all") =>
    /\ Cardinality(CallsIn(events)) = 1
    /\ response.status = 200 =>
         \A i, j \in 1..Len(response.results) :
           i # j => IdentityOf(response.results[i])
                      # IdentityOf(response.results[j])

(* ------------------------------------------------------------------ *)
(* business_finder.py : the provider clients                          *)
(*                                                                    *)
(* A JSON object is a function on its keys, a JSON array a sequence.  *)
(* ------------------------------------------------------------------ *)
MaxElements == 2

\* dict.get(k, default)
Get(d, k, default) == IF k \in DOMAIN d THEN d[k] ELSE default

EmptyDict == <<>>

\* a website URL is a tuple of characters
HomeURL == <<"h", "t", "t", "p", ":", "/", "/", "w">>

Websites == {HomeURL}

\* e-mail addresses are tuples of characters
GoodEmail == <<"e", "@", "w", ".", "i", "t">>
PlaceholderEmail ==
  <<"x", "@", "e", "x", "a", "m", "p", "l", "e", ".", "c", "o", "m">>
CapitalPlaceholderEmail ==
  <<"x", "@", "e", "x", "a", "m", "p", "l", "e", ".", "C", "o", "m">>

\* lines 81-82, 102-103: the excluded substrings
Excludes ==
  << <<"e", "x", "a", "m", "p", "l", "e", ".", "c", "o", "m">>,
     <<"y", "o", "u", "r", "d", "o", "m", "a", "i", "n">>,
     <<"d", "o", "m", "a", "i", "n", ".", "c", "o", "m">>,
     <<"e", "m", "a", "i", "l", ".", "c", "o", "m">> >>

\* sub in s
Contains(s, sub) ==
  \E i \in 0..(Len(s) - Len(sub)) : SubSeq(s, i + 1, i + Len(sub)) = sub

\* lines 79-83: the addresses that hold none of the excluded substrings once
\* lower-cased
valid_emails(emails) ==
  SelectSeq(emails,
            LAMBDA email : ~\E n \in 1..Len(Excludes) :
                              Contains(Lower(email), Excludes[n]))

\* the answer to a page fetch: the request raised (timeout, refused
\* connection), or a status and the addresses re.findall meets in the text
FetchRaised == [raised |-> TRUE, status_code |-> 0, emails |-> <<>>]
Fetched(status_code, emails) ==
  [raised |-> FALSE, status_code |-> status_code, emails |-> emails]

\* the sites a provider search is run against
SearchSites ==
  { [home |-> Fetched(200, <<PlaceholderEmail, GoodEmail>>), contact |-> FetchRaised],
    [home |-> Fetched(200, <<CapitalPlaceholderEmail>>),
     contact |-> Fetched(200, <<PlaceholderEmail>>)],
    [home |-> Fetched(404, <<>>), contact |-> Fetched(200, <<GoodEmail>>)],
    [home |-> FetchRaised, contact |-> Fetched(200, <<GoodEmail>>)] }

WebEnvs == [Websites -> SearchSites]

\* lines 72-86, 95-107: the first valid address of a page answered with 200
FirstValid(page) ==
  IF page.status_code = 200 /\ Len(valid_emails(page.emails)) > 0
    THEN S(valid_emails(page.emails)[1])
    ELSE None

\* line 89: the literal '/contact'
ContactPath == <<"/", "c", "o", "n", "t", "a", "c", "t">>

\* line 89: '/contact' not in website_url.lower()
NamesContactPage(url) == Contains(Lower(url), ContactPath)

\* str.rstrip('/')
RECURSIVE RStrip(_)
RStrip(s) ==
  IF Len(s) > 0 /\ s[Len(s)] = "/" THEN RStrip(SubSeq(s, 1, Len(s) - 1))
  ELSE s

\* line 90: contact_url = website_url.rstrip('/') + '/contact'
ContactURL(url) == RStrip(url) \o ContactPath

\* lines 55-112
extract_email_from_website(website_url) ==
  IF ~Truthy(website_url) THEN None
  ELSE LET site == web[website_url[2]]
       IN IF site.home.raised THEN None
          ELSE IF Truthy(FirstValid(site.home)) THEN FirstValid(site.home)
          ELSE IF NamesContactPage(website_url[2]) THEN None
          ELSE IF site.contact.raised THEN None
          ELSE FirstValid(site.contact)

\* lines 163, 365, 440, 554: the provider requests pass no timeout
NoTimeout == 0

\* lines 69, 91: timeout=10
FetchTimeout == 10

\* a page fetch and its answer
Fetch(url, page) ==
  [request  |-> [timeout |-> FetchTimeout, endpoint |-> "website",
                 url |-> url],
   response |-> page]

\* the page fetches, were the contact page tried whatever the URL holds
EmailFetches_ContactAlways(website_url) ==
  IF ~Truthy(website_url) THEN <<>>
  ELSE LET url  == website_url[2]
           site == web[url]
           home == <<Fetch(url, site.home)>>
       IN IF site.home.raised THEN home
          ELSE IF Truthy(FirstValid(site.home)) THEN home
          ELSE Append(home, Fetch(ContactURL(url), site.contact))

\* lines 65-107: the page fetches of one extract_email_from_website call
EmailFetches(website_url) ==
  IF ~Truthy(website_url) THEN <<>>
  ELSE LET url  == website_url[2]
           site == web[url]
           home == <<Fetch(url, site.home)>>
       IN IF site.home.raised THEN home
          ELSE IF Truthy(FirstValid(site.home)) THEN home
          ELSE IF NamesContactPage(url) THEN home
          ELSE Append(home, Fetch(ContactURL(url), site.contact))

RequestsOf(fetches) == [i \in 1..Len(fetches) |-> fetches[i].request]
ResponsesOf(fetches) == [i \in 1..Len(fetches) |-> fetches[i].response]

\* lines 290-294, 490-494, 646-650
WithEmail(business_data, email) ==
  IF Truthy(email)
    THEN [f \in DOMAIN business_data |->
            IF f = "Email" THEN email ELSE business_data[f]]
    ELSE business_data

SearchCategories == {"hotel"}
SearchRadii == {5, 40, 50}
MinRatings == {0, 35}
ProviderNames == {GoogleName, YelpName, OSMName}

Returned(list) == [raised |-> FALSE, returned |-> TRUE, list |-> list]
Raised == [raised |-> TRUE, returned |-> FALSE, list |-> <<>>]

(* ---------------- OpenStreetMapAPI ---------------- *)
\* category_map.get(category.lower(), f"amenity={category.lower()}")
OSMCategory(cat) ==
  CASE StrLower(cat) = "hotel" -> "tourism=hotel"
    [] StrLower(cat) = "restaurant" -> "amenity=restaurant"
    [] StrLower(cat) = "bar" -> "amenity=bar"
    [] StrLower(cat) = "cafe" -> "amenity=cafe"
    [] StrLower(cat) = "bakery" -> "shop=bakery"
    [] StrLower(cat) = "nightclub" -> "amenity=nightclub"
    [] OTHER -> "amenity=other"

\* display_name is held as its pieces between commas
RomeEntry ==
  ("lat" :> S("41.9")) @@ ("lon" :> S("12.5")) @@
  ("display_name" :> <<"Rome", " Italy">>)

OSMErrorBody == [json |-> "object", body |-> ("error" :> S("timeout"))]

OSMGeocodeResponses ==
  { OSMErrorBody,
    [json |-> "array", body |-> <<>>],
    [json |-> "array", body |-> <<RomeEntry>>],
    [json |-> "array", body |-> <<("lon" :> S("12.5"))>>] }

\* not location_result or 'error' in location_result
OSMLocationFailed(location_result) ==
  IF location_result.json = "array"
    THEN Len(location_result.body) = 0
    ELSE \/ DOMAIN location_result.body = {}
         \/ "error" \in DOMAIN location_result.body

Tags(name, more) == ("name" :> S(name)) @@ more

Street == ("addr:street" :> <<"v">>) @@ ("addr:housenumber" :> <<"1">>)
           @@ ("addr:postcode" :> <<"0">>)

Node(tags) == ("type" :> "node") @@ ("lat" :> N(419)) @@ ("lon" :> N(125))
               @@ ("tags" :> tags)

OSMElements ==
  { Node(Tags(<<"A", "b">>, ("website" :> S(HomeURL)) @@ ("phone" :> S("06")) @@ Street)),
    Node(Tags(<<"c">>, ("addr:street" :> <<"v">>) @@ ("addr:city" :> S("Ostia")))),
    Node(Tags(<<"c">>, ("email" :> S(<<"t", "@", "g">>)) @@ ("website" :> S(HomeURL)))),
    Node(Tags(<<"c">>, ("email" :> S(PlaceholderEmail)))),
    Node(("website" :> S(HomeURL)) @@ ("phone" :> S("06"))),
    ("type" :> "way") @@ ("tags" :> Tags(<<"A", "b">>, EmptyDict)),
    ("type" :> "node") @@ ("lat" :> N(419)) @@ ("lon" :> N(125)) }

ElementLists == UNION { [1..n -> OSMElements] : n \in 0..MaxElements }

OverpassResponses ==
  { [failed |-> TRUE, body |-> EmptyDict],
    [failed |-> FALSE, body |-> EmptyDict] }
  \cup { [failed |-> FALSE, body |-> ("elements" :> l)] : l \in ElementLists }

\* lines 463-472
OSMAddress(tags) ==
  LET first == IF "addr:housenumber" \in DOMAIN tags /\ "addr:street" \in DOMAIN tags
                 THEN <<tags["addr:housenumber"] \o <<" ">> \o tags["addr:street"]>>
               ELSE IF "addr:street" \in DOMAIN tags
                 THEN <<tags["addr:street"]>>
               ELSE <<>>
      address_parts == IF "addr:postcode" \in DOMAIN tags
                         THEN Append(first, tags["addr:postcode"])
                         ELSE first
  IN IF Len(address_parts) = 0 THEN <<>>
     ELSE IF Len(address_parts) = 1 THEN address_parts[1]
     ELSE address_parts[1] \o <<",", " ">> \o address_parts[2]

\* str.strip() on the pieces of a display_name
Strip(s) == CASE s = " Italy" -> "Italy" [] OTHER -> s

\* lines 453-494: the record of one named node
OSMRecord(element, location_data, cat) ==
  LET tags    == Get(element, "tags", EmptyDict)
      website == Get(tags, "website", S(""))
      phone   == Get(tags, "phone", S(""))
      pieces  == Get(location_data, "display_name", <<"">>)
      business_data ==
        Business(Get(tags, "name", S(<<>>)), S(Capitalize(cat)),
                 S(OSMAddress(tags)),
                 Get(tags, "addr:city", S(pieces[1])),
                 Get(tags, "addr:country", S(Strip(pieces[Len(pieces)]))),
                 phone, Get(tags, "email", S("")), website, S(""), S(""),
                 Get(element, "lat", S("")), Get(element, "lon", S("")),
                 S(OSMName))
  IN IF Truthy(website) /\ ~Truthy(business_data["Email"])
       THEN WithEmail(business_data, extract_email_from_website(website))
       ELSE business_data

\* lines 459, 481, 491-492: the page fetches made for one named node
OSMFetches(element) ==
  LET tags == Get(element, "tags", EmptyDict)
  IN IF Truthy(Get(tags, "website", S(""))) /\ ~Truthy(Get(tags, "email", S("")))
       THEN EmailFetches(Get(tags, "website", S("")))
       ELSE <<>>

\* lines 449-457: the elements that are skipped
OSMSkipped(element) ==
  \/ Get(element, "type", "") # "node"
  \/ "name" \notin DOMAIN Get(element, "tags", EmptyDict)

\* variant: a node is also skipped when its (missing) rating, taken as 0, is
\* below min_rating
RECURSIVE OSMCollect_RatingApplied(_, _, _, _, _)
OSMCollect_RatingApplied(elements, n, location_data, cat, minrating) ==
  IF n = 0 THEN <<>>
  ELSE LET before == OSMCollect_RatingApplied(elements, n - 1, location_data, cat, minrating)
       IN IF OSMSkipped(elements[n]) \/ 0 < minrating
            THEN before
            ELSE Append(before, OSMRecord(elements[n], location_data, cat))

\* lines 447-498: the loop over the first n elements
RECURSIVE OSMCollect(_, _, _, _, _)
OSMCollect(elements, n, location_data, cat, minrating) ==
  IF n = 0 THEN <<>>
  ELSE LET before == OSMCollect(elements, n - 1, location_data, cat, minrating)
       IN IF OSMSkipped(elements[n])
            THEN before
            ELSE Append(before, OSMRecord(elements[n], location_data, cat))

\* lines 449-496: the page fetches of the loop over the first n elements
RECURSIVE OSMCollectFetches(_, _)
OSMCollectFetches(elements, n) ==
  IF n = 0 THEN <<>>
  ELSE IF OSMSkipped(elements[n]) THEN OSMCollectFetches(elements, n - 1)
  ELSE OSMCollectFetches(elements, n - 1) \o OSMFetches(elements[n])

OSMFetchesAfterOverpass(overpass) ==
  IF overpass.failed THEN <<>>
  ELSE LET elements == Get(overpass.body, "elements", <<>>)
       IN OSMCollectFetches(elements, Len(elements))

\* lines 439-498: what the search returns once the Overpass answer is there
OSMAfterOverpass(overpass, location_data, cat, minrating) ==
  IF overpass.failed THEN Returned(<<>>)
  ELSE LET elements == Get(overpass.body, "elements", <<>>)
       IN Returned(OSMCollect(elements, Len(elements), location_data, cat, minrating))

(* ---------------- GooglePlacesAPI ---------------- *)
MaxCandidates == 2

\* category_map.get(category.lower(), category.lower())
GoogleType(cat) ==
  CASE StrLower(cat) = "hotel" -> "lodging"
    [] StrLower(cat) = "nightclub" -> "night_club"
    [] OTHER -> StrLower(cat)

\* _make_request answers {"status": "ERROR", ...} on a RequestException
GoogleError == ("status" :> "ERROR") @@ ("error_message" :> S("timeout"))

GoogleGeocodeResponses ==
  { GoogleError,
    ("status" :> "ZERO_RESULTS") @@ ("results" :> <<>>),
    ("status" :> "OK") @@ ("results" :> <<>>),
    ("status" :> "OK") @@ ("results" :> <<[lat |-> N(419), lng |-> N(125)]>>) }

Place(name, more) == ("name" :> S(name)) @@ more

GooglePlaces ==
  { Place(<<"A", "b">>, ("place_id" :> "p1") @@ ("rating" :> 40)),
    Place(<<"c">>, ("place_id" :> "p2")),
    Place(<<"c">>, ("place_id" :> "p3") @@ ("rating" :> 30)),
    Place(<<"A", "b">>, ("rating" :> 40)) }

PlaceLists == UNION { [1..n -> GooglePlaces] : n \in 0..MaxCandidates }

NearbyResponses ==
  { GoogleError, ("status" :> "ZERO_RESULTS") @@ ("results" :> <<>>) }
  \cup { ("status" :> "OK") @@ ("results" :> l) : l \in PlaceLists }
  \cup { ("status" :> "OK") @@ ("results" :> l) @@ ("next_page_token" :> "t1") :
           l \in PlaceLists }

NextPageResponses ==
  { GoogleError,
    ("status" :> "OK") @@ ("results" :> <<Place(<<"c">>, ("place_id" :> "p2"))>>),
    ("status" :> "OK") @@ ("results" :> <<Place(<<"c">>, ("place_id" :> "p2"))>>)
       @@ ("next_page_token" :> "t2") }

Components ==
  << [types |-> {"locality", "political"}, long_name |-> S("Rome")],
     [types |-> {"country", "political"}, long_name |-> S("Italy")] >>

FullDetails ==
  ("name" :> S(<<"A", "b">>)) @@ ("formatted_address" :> S(<<"x">>)) @@
  ("formatted_phone_number" :> S("06")) @@ ("website" :> S(HomeURL)) @@
  ("rating" :> N(45)) @@ ("user_ratings_total" :> N(12)) @@
  ("geometry" :> ("location" :> (("lat" :> N(419)) @@ ("lng" :> N(125))))) @@
  ("address_components" :> Components)

LowerRatedDetails ==
  ("name" :> S(<<"A", "b">>)) @@ ("formatted_address" :> S(<<"x">>)) @@
  ("rating" :> N(30))

BareDetails == ("name" :> S(<<"c">>))

DetailsResponses ==
  { GoogleError,
    ("status" :> "OK"),
    ("status" :> "OK") @@ ("result" :> FullDetails),
    ("status" :> "OK") @@ ("result" :> LowerRatedDetails),
    ("status" :> "OK") @@ ("result" :> BareDetails) }

\* lines 264-271: the last component of each kind wins; a component that is a
\* locality is never read as a country
RECURSIVE CityOf(_, _)
CityOf(components, n) ==
  IF n = 0 THEN S("")
  ELSE IF "locality" \in components[n].types THEN components[n].long_name
  ELSE CityOf(components, n - 1)

RECURSIVE CountryOf(_, _)
CountryOf(components, n) ==
  IF n = 0 THEN S("")
  ELSE IF "locality" \notin components[n].types /\ "country" \in components[n].types
         THEN components[n].long_name
  ELSE CountryOf(components, n - 1)

\* lines 260-294: the record of one place
GoogleRecord(place_details, cat) ==
  LET address_components == Get(place_details, "address_components", <<>>)
      location == Get(Get(place_details, "geometry", EmptyDict), "location", EmptyDict)
      business_data ==
        Business(Get(place_details, "name", S(<<>>)), S(Capitalize(cat)),
                 Get(place_details, "formatted_address", S(<<>>)),
                 CityOf(address_components, Len(address_components)),
                 CountryOf(address_components, Len(address_components)),
                 Get(place_details, "formatted_phone_number", S("")),
                 S(""),
                 Get(place_details, "website", S("")),
                 Get(place_details, "rating", S("")),
                 Get(place_details, "user_ratings_total", S("")),
                 Get(location, "lat", S("")), Get(location, "lng", S("")),
                 S(GoogleName))
  IN IF Truthy(business_data["Website"])
       THEN WithEmail(business_data,
                      extract_email_from_website(business_data["Website"]))
       ELSE business_data

\* lines 282, 291-292: the page fetches made for one place
GoogleFetches(place_details) ==
  EmailFetches(Get(place_details, "website", S("")))

\* line 205
GoogleRadius(km) == km * 1000

\* variant: the test on the listed rating is left out
GoogleRatingTooLow_NotTested(place, minrating) == FALSE

\* line 250
GoogleRatingTooLow(place, minrating) ==
  "rating" \in DOMAIN place /\ place["rating"] < minrating

(* ---------------- YelpFusionAPI ---------------- *)
DigitChar(d) ==
  CASE d = 0 -> "0" [] d = 1 -> "1" [] d = 2 -> "2" [] d = 3 -> "3"
    [] d = 4 -> "4" [] d = 5 -> "5" [] d = 6 -> "6" [] d = 7 -> "7"
    [] d = 8 -> "8" [] d = 9 -> "9"

\* str() of a float below 10, given in tenths: 45 is '4.5'
FloatStr(n) == <<DigitChar(n \div 10), ".", DigitChar(n % 10)>>

\* str() of an int below 100
IntStr(n) ==
  IF n < 10 THEN <<DigitChar(n)>> ELSE <<DigitChar(n \div 10), DigitChar(n % 10)>>

\* category_map.get(category.lower(), category.lower())
YelpCategory(cat) ==
  CASE StrLower(cat) = "hotel" -> "hotels"
    [] StrLower(cat) = "restaurant" -> "restaurants"
    [] StrLower(cat) = "bar" -> "bars"
    [] StrLower(cat) = "cafe" -> "cafes"
    [] StrLower(cat) = "bakery" -> "bakeries"
    [] StrLower(cat) = "nightclub" -> "nightlife"
    [] OTHER -> StrLower(cat)

\* variant: the 40000 metre cap of lines 580-581 left out
YelpRadius_Uncapped(km) == km * 1000

\* lines 579-581
YelpRadius(km) == IF km * 1000 > 40000 THEN 40000 ELSE km * 1000

\* _make_request answers {"error": str(e)} on a RequestException
YelpError == ("error" :> S("timeout"))

YelpLocation ==
  ("display_address" :> << <<"x">> >>) @@ ("city" :> S("Rome"))
    @@ ("country" :> S("IT"))

Listed(name, more) == ("name" :> S(name)) @@ more

YelpBusinesses ==
  { Listed(<<"A", "b">>, ("id" :> "y1") @@ ("rating" :> 40) @@ ("review_count" :> 12)
                          @@ ("url" :> S(HomeURL)) @@ ("phone" :> S("06"))
                          @@ ("location" :> YelpLocation)),
    Listed(<<"c">>, ("id" :> "y2")),
    Listed(<<"c">>, ("id" :> "y3") @@ ("rating" :> 30)),
    Listed(<<"A", "b">>, ("rating" :> 40)) }

YelpLists == UNION { [1..n -> YelpBusinesses] : n \in 0..MaxCandidates }

YelpSearchResponses ==
  { YelpError, EmptyDict }
  \cup { ("businesses" :> l) @@ ("total" :> t) : l \in YelpLists, t \in {1, 60} }

YelpNextResponses ==
  { YelpError,
    ("businesses" :> <<>>) @@ ("total" :> 60),
    ("businesses" :> <<Listed(<<"c">>, ("id" :> "y2"))>>) @@ ("total" :> 60) }

YelpDetailsResponses == { YelpError, ("id" :> "y1") }

\* ', '.join(display_address)
RECURSIVE JoinAddress(_, _)
JoinAddress(lines, n) ==
  IF n = 0 THEN <<>>
  ELSE IF n = 1 THEN lines[1]
  ELSE JoinAddress(lines, n - 1) \o <<",", " ">> \o lines[n]

\* lines 626-650: the record of one listed business
YelpRecord(business, cat) ==
  LET location_data == Get(business, "location", EmptyDict)
      lines == Get(location_data, "display_address", <<>>)
      coordinates == Get(business, "coordinates", EmptyDict)
      business_data ==
        Business(Get(business, "name", S(<<>>)), S(Capitalize(cat)),
                 S(JoinAddress(lines, Len(lines))),
                 Get(location_data, "city", S("")),
                 Get(location_data, "country", S("")),
                 Get(business, "phone", S("")),
                 S(""),
                 Get(business, "url", S("")),
                 IF "rating" \in DOMAIN business
                   THEN S(FloatStr(business["rating"])) ELSE S(<<>>),
                 IF "review_count" \in DOMAIN business
                   THEN S(IntStr(business["review_count"])) ELSE S(<<>>),
                 Get(coordinates, "latitude", S("")),
                 Get(coordinates, "longitude", S("")),
                 S(YelpName))
  IN IF Truthy(business_data["Website"])
       THEN WithEmail(business_data,
                      extract_email_from_website(business_data["Website"]))
       ELSE business_data

\* lines 638, 647-648: the page fetches made for one business
YelpFetches(business) == EmailFetches(Get(business, "url", S("")))

\* line 612
YelpRatingTooLow(business, minrating) == Get(business, "rating", 0) < minrating

\* lines 655-658
YelpOffset(result) ==
  Get(result, "offset", 0) + Len(Get(result, "businesses", <<>>))

YelpHasMore(result) ==
  YelpOffset(result) < Get(result, "total", 0) /\ YelpOffset(result) < 1000

ProvInit ==
  /\ DedupIdle
  /\ AuxIdle
  /\ RateIdle
  /\ AppIdle
  /\ provider \in ProviderNames
  /\ p_pc = "start"
  /\ p_category \in SearchCategories
  /\ radius_km \in SearchRadii
  /\ min_rating \in MinRatings
  /\ web \in WebEnvs
  /\ request_count = 0
  /\ requests = <<>>
  /\ responses = <<>>
  /\ search_result = <<>>
  /\ places = <<>>
  /\ place_i = 1
  /\ found = <<>>
  /\ p_out = [raised |-> FALSE, returned |-> FALSE, list |-> <<>>]

Finish(out) ==
  /\ p_out' = out
  /\ p_pc' = "done"

\* lines 401-423: the Nominatim lookup through _make_request
OSMSearchLocation ==
  /\ provider = OSMName
  /\ p_pc = "start"
  /\ request_count' = request_count + 1
  /\ requests' = Append(requests, [timeout |-> NoTimeout, endpoint |-> "search", q |-> "Rome", limit |-> 1])
  /\ \E location_result \in OSMGeocodeResponses :
       /\ responses' = Append(responses, location_result)
       /\ IF OSMLocationFailed(location_result)
            THEN Finish(Returned(<<>>))
          ELSE IF {"lat", "lon"} \subseteq DOMAIN location_result.body[1]
            THEN p_pc' = "overpass" /\ UNCHANGED p_out
          ELSE Finish(Raised)
  /\ UNCHANGED <<provider, p_category, radius_km, min_rating, web,
                 search_result, places, place_i, found>>
  /\ UNCHANGED <<dedup_vars, app_vars, rate_vars, aux_vars>>

\* lines 425-498: the Overpass query (requests.post, not _make_request), the
\* loop over its elements and the return
OSMQueryOverpass ==
  /\ provider = OSMName
  /\ p_pc = "overpass"
  /\ \E overpass \in OverpassResponses :
       LET query == [timeout |-> NoTimeout, endpoint |-> "overpass",
                     node |-> OSMCategory(p_category),
                     centre |-> <<responses[1].body[1]["lat"],
                                  responses[1].body[1]["lon"]>>,
                     radius_km |-> radius_km]
           fetches == OSMFetchesAfterOverpass(overpass)
       IN /\ requests' = Append(requests, query) \o RequestsOf(fetches)
          /\ responses' = Append(responses, overpass) \o ResponsesOf(fetches)
          /\ Finish(OSMAfterOverpass(overpass, responses[1].body[1],
                                     p_category, min_rating))
  /\ UNCHANGED <<provider, p_category, radius_km, min_rating, web,
                 request_count, search_result, places, place_i, found>>
  /\ UNCHANGED <<dedup_vars, app_vars, rate_vars, aux_vars>>

\* lines 219-230: the geocode request
GoogleGeocode ==
  /\ provider = GoogleName
  /\ p_pc = "start"
  /\ request_count' = request_count + 1
  /\ requests' = Append(requests, [timeout |-> NoTimeout, endpoint |-> "geocode", address |-> "Rome"])
  /\ \E geocode_result \in GoogleGeocodeResponses :
       /\ responses' = Append(responses, geocode_result)
       /\ IF Get(geocode_result, "status", "") # "OK"
            THEN Finish(Returned(<<>>))
          ELSE IF Len(geocode_result["results"]) = 0
            THEN Finish(Raised)
          ELSE p_pc' = "nearby" /\ UNCHANGED p_out
  /\ UNCHANGED <<provider, p_category, radius_km, min_rating, web,
                 search_result, places, place_i, found>>
  /\ UNCHANGED <<dedup_vars, app_vars, rate_vars, aux_vars>>

\* lines 232-248: the nearby search; the loop then runs over this answer's
\* result list
GoogleNearbySearch ==
  /\ provider = GoogleName
  /\ p_pc = "nearby"
  /\ request_count' = request_count + 1
  /\ requests' = Append(requests, [timeout |-> NoTimeout, endpoint |-> "nearbysearch",
                                   location |-> responses[1]["results"][1],
                                   radius |-> GoogleRadius(radius_km),
                                   type |-> GoogleType(p_category)])
  /\ \E result \in NearbyResponses :
       /\ responses' = Append(responses, result)
       /\ IF Get(result, "status", "") # "OK"
            THEN Finish(Returned(<<>>)) /\ UNCHANGED <<search_result, places>>
            ELSE /\ search_result' = result
                 /\ places' = Get(result, "results", <<>>)
                 /\ p_pc' = "loop"
                 /\ UNCHANGED p_out
  /\ UNCHANGED <<provider, p_category, radius_km, min_rating, web, place_i, found>>
  /\ UNCHANGED <<dedup_vars, app_vars, rate_vars, aux_vars>>

\* lines 249-251: a place listed with too low a rating is skipped
GoogleSkipPlace ==
  /\ provider = GoogleName
  /\ p_pc = "loop"
  /\ place_i <= Len(places)
  /\ GoogleRatingTooLow(places[place_i], min_rating)
  /\ place_i' = place_i + 1
  /\ UNCHANGED <<provider, p_pc, p_category, radius_km, min_rating, web,
                 request_count, requests, responses, search_result, places,
                 found, p_out>>
  /\ UNCHANGED <<dedup_vars, app_vars, rate_vars, aux_vars>>

\* lines 253-296: the details request of a place and its record
GooglePlaceDetails ==
  /\ provider = GoogleName
  /\ p_pc = "loop"
  /\ place_i <= Len(places)
  /\ ~GoogleRatingTooLow(places[place_i], min_rating)
  /\ IF "place_id" \notin DOMAIN places[place_i]
       THEN /\ Finish(Raised)
            /\ UNCHANGED <<request_count, requests, responses, place_i, found>>
       ELSE /\ request_count' = request_count + 1
            /\ \E details_result \in DetailsResponses :
                 LET details == [timeout |-> NoTimeout, endpoint |-> "details",
                                 place_id |-> places[place_i]["place_id"]]
                 IN IF Get(details_result, "status", "") # "OK"
                      THEN /\ requests' = Append(requests, details)
                           /\ responses' = Append(responses, details_result)
                           /\ place_i' = place_i + 1
                           /\ UNCHANGED <<p_pc, found, p_out>>
                    ELSE IF "result" \notin DOMAIN details_result
                      THEN /\ requests' = Append(requests, details)
                           /\ responses' = Append(responses, details_result)
                           /\ Finish(Raised)
                           /\ UNCHANGED <<place_i, found>>
                    ELSE LET fetches == GoogleFetches(details_result["result"])
                         IN /\ requests' = Append(requests, details) \o RequestsOf(fetches)
                            /\ responses' = Append(responses, details_result)
                                               \o ResponsesOf(fetches)
                            /\ found' = Append(found,
                                   GoogleRecord(details_result["result"], p_category))
                            /\ IF "next_page_token" \in DOMAIN search_result
                                 THEN p_pc' = "page" /\ UNCHANGED place_i
                                 ELSE place_i' = place_i + 1 /\ UNCHANGED p_pc
                            /\ UNCHANGED p_out
  /\ UNCHANGED <<provider, p_category, radius_km, min_rating, web,
                 search_result, places>>
  /\ UNCHANGED <<dedup_vars, app_vars, rate_vars, aux_vars>>

\* lines 298-312: after a record, the next page is requested with the token
\* of search_result; the loop goes on over the list it started with
GoogleNextPage ==
  /\ provider = GoogleName
  /\ p_pc = "page"
  /\ request_count' = request_count + 1
  /\ requests' = Append(requests, [timeout |-> NoTimeout, endpoint |-> "nearbysearch",
                                   pagetoken |-> search_result["next_page_token"],
                                   slept |-> 20])
  /\ \E next_result \in NextPageResponses :
       /\ responses' = Append(responses, next_result)
       /\ IF Get(next_result, "status", "") = "OK"
            THEN /\ search_result' = next_result
                 /\ place_i' = place_i + 1
                 /\ p_pc' = "loop"
                 /\ UNCHANGED p_out
            ELSE /\ Finish(Returned(found))
                 /\ UNCHANGED <<search_result, place_i>>
  /\ UNCHANGED <<provider, p_category, radius_km, min_rating, web, places, found>>
  /\ UNCHANGED <<dedup_vars, app_vars, rate_vars, aux_vars>>

\* line 314
GoogleReturn ==
  /\ provider = GoogleName
  /\ p_pc = "loop"
  /\ place_i > Len(places)
  /\ Finish(Returned(found))
  /\ UNCHANGED <<provider, p_category, radius_km, min_rating, web,
                 request_count, requests, responses, search_result, places,
                 place_i, found>>
  /\ UNCHANGED <<dedup_vars, app_vars, rate_vars, aux_vars>>

\* lines 595-610: the search request; a failed request makes the log call
\* of line 605 raise (the 'error' value is a str, which has no get)
YelpSearch ==
  /\ provider = YelpName
  /\ p_pc = "start"
  /\ request_count' = request_count + 1
  /\ requests' = Append(requests, [timeout |-> NoTimeout, endpoint |-> "businesses/search",
                                   location |-> "Rome",
                                   categories |-> YelpCategory(p_category),
                                   radius |-> YelpRadius(radius_km),
                                   limit |-> 50])
  /\ \E result \in YelpSearchResponses :
       /\ responses' = Append(responses, result)
       /\ IF "error" \in DOMAIN result
            THEN Finish(Raised) /\ UNCHANGED <<search_result, places>>
            ELSE /\ search_result' = result
                 /\ places' = Get(result, "businesses", <<>>)
                 /\ p_pc' = "loop"
                 /\ UNCHANGED p_out
  /\ UNCHANGED <<provider, p_category, radius_km, min_rating, web, place_i, found>>
  /\ UNCHANGED <<dedup_vars, app_vars, rate_vars, aux_vars>>

\* lines 611-618: a business rated too low, or without an id, is skipped
YelpSkipBusiness ==
  /\ provider = YelpName
  /\ p_pc = "loop"
  /\ place_i <= Len(places)
  /\ \/ YelpRatingTooLow(places[place_i], min_rating)
     \/ "id" \notin DOMAIN places[place_i]
  /\ place_i' = place_i + 1
  /\ UNCHANGED <<provider, p_pc, p_category, radius_km, min_rating, web,
                 request_count, requests, responses, search_result, places,
                 found, p_out>>
  /\ UNCHANGED <<dedup_vars, app_vars, rate_vars, aux_vars>>

\* lines 620-652: the details request of a business and its record
YelpBusinessDetails ==
  /\ provider = YelpName
  /\ p_pc = "loop"
  /\ place_i <= Len(places)
  /\ ~YelpRatingTooLow(places[place_i], min_rating)
  /\ "id" \in DOMAIN places[place_i]
  /\ request_count' = request_count + 1
  /\ \E details_result \in YelpDetailsResponses :
       LET details == [timeout |-> NoTimeout, endpoint |-> "businesses/id",
                       id |-> places[place_i]["id"]]
           fetches == YelpFetches(places[place_i])
       IN IF "error" \in DOMAIN details_result
            THEN /\ requests' = Append(requests, details)
                 /\ responses' = Append(responses, details_result)
                 /\ place_i' = place_i + 1
                 /\ UNCHANGED <<p_pc, found>>
            ELSE /\ requests' = Append(requests, details) \o RequestsOf(fetches)
                 /\ responses' = Append(responses, details_result)
                                    \o ResponsesOf(fetches)
                 /\ found' = Append(found, YelpRecord(places[place_i], p_category))
                 /\ IF YelpHasMore(search_result)
                      THEN p_pc' = "page" /\ UNCHANGED place_i
                      ELSE place_i' = place_i + 1 /\ UNCHANGED p_pc
  /\ UNCHANGED <<provider, p_category, radius_km, min_rating, web,
                 search_result, places, p_out>>
  /\ UNCHANGED <<dedup_vars, app_vars, rate_vars, aux_vars>>

\* lines 654-665: after a record, the next page is requested at the offset
\* computed from search_result; the loop goes on over the list it started
\* with
YelpNextPage ==
  /\ provider = YelpName
  /\ p_pc = "page"
  /\ request_count' = request_count + 1
  /\ requests' = Append(requests, [timeout |-> NoTimeout, endpoint |-> "businesses/search",
                                   location |-> "Rome",
                                   categories |-> YelpCategory(p_category),
                                   radius |-> YelpRadius(radius_km),
                                   limit |-> 50,
                                   offset |-> YelpOffset(search_result)])
  /\ \E next_result \in YelpNextResponses :
       /\ responses' = Append(responses, next_result)
       /\ IF "error" \notin DOMAIN next_result
            THEN /\ search_result' = next_result
                 /\ place_i' = place_i + 1
                 /\ p_pc' = "loop"
                 /\ UNCHANGED p_out
            ELSE /\ Finish(Returned(found))
                 /\ UNCHANGED <<search_result, place_i>>
  /\ UNCHANGED <<provider, p_category, radius_km, min_rating, web, places, found>>
  /\ UNCHANGED <<dedup_vars, app_vars, rate_vars, aux_vars>>

\* line 667
YelpReturn ==
  /\ provider = YelpName
  /\ p_pc = "loop"
  /\ place_i > Len(places)
  /\ Finish(Returned(found))
  /\ UNCHANGED <<provider, p_category, radius_km, min_rating, web,
                 request_count, requests, responses, search_result, places,
                 place_i, found>>
  /\ UNCHANGED <<dedup_vars, app_vars, rate_vars, aux_vars>>

ProvNext ==
  \/ OSMSearchLocation
  \/ OSMQueryOverpass
  \/ GoogleGeocode
  \/ GoogleNearbySearch
  \/ GoogleSkipPlace
  \/ GooglePlaceDetails
  \/ GoogleNextPage
  \/ GoogleReturn
  \/ YelpSearch
  \/ YelpSkipBusiness
  \/ YelpBusinessDetails
  \/ YelpNextPage
  \/ YelpReturn

SpecProvider == ProvInit /\ [][ProvNext]_vars

(* ------------------------------------------------------------------ *)
(* Properties of the provider searches                                *)
(* ------------------------------------------------------------------ *)
CharDigit(c) == CHOOSE d \in 0..9 : DigitChar(d) = c

\* the rating a record shows, in tenths; Yelp records hold it as text
HasRating(b) ==
  b["Google Rating"][1] = "num" \/ Len(b["Google Rating"][2]) > 0

RatingOf(b) ==
  LET v == b["Google Rating"]
  IN IF v[1] = "num" THEN v[2]
     ELSE 10 * CharDigit(v[2][1]) + CharDigit(v[2][3])

\* C9: no record returned by the Google Places or the Yelp search has a
\* rating strictly below min_rating, whatever the provider answers.
C9_NoRecordBelowMinRating ==
  (p_pc = "done" /\ provider \in {GoogleName, YelpName}) =>
    \A n \in 1..Len(p_out.list) :
      HasRating(p_out.list[n]) => RatingOf(p_out.list[n]) >= min_rating

OverpassElements == Get(responses[2].body, "elements", <<>>)

NamedNodes ==
  {n \in 1..Len(OverpassElements) :
     /\ "type" \in DOMAIN OverpassElements[n]
     /\ OverpassElements[n]["type"] = "node"
     /\ "tags" \in DOMAIN OverpassElements[n]
     /\ "name" \in DOMAIN OverpassElements[n]["tags"]}

\* C10: the OpenStreetMap search ignores min_rating: with the same answers a
\* search with any other min_rating returns the same records; every returned
\* record comes from a node with a name tag, every named node is returned,
\* and rating and review count are empty.
C10_MinRatingIgnored ==
  (p_pc = "done" /\ provider = OSMName /\ Len(responses) >= 2) =>
    /\ \A m \in MinRatings \cup {10, 50} :
         OSMAfterOverpass(responses[2], responses[1].body[1], p_category, m) = p_out
    /\ Len(p_out.list) = Cardinality(NamedNodes)
    /\ \A n \in 1..Len(p_out.list) :
         /\ \E e \in NamedNodes :
              p_out.list[n]["Business Name"] = OverpassElements[e]["tags"]["name"]
         /\ p_out.list[n]["Google Rating"] = S("")
         /\ p_out.list[n]["Number of Reviews"] = S("")

C10_Witness ==
  /\ p_pc = "done"
  /\ provider = OSMName
  /\ min_rating = 35
  /\ Len(responses) >= 2
  /\ Len(p_out.list) = 1
  /\ Len(OverpassElements) = 2

\* the requests of the log that carry a radius
RadiusRequests == {n \in 1..Len(requests) : "radius" \in DOMAIN requests[n]}

\* C11: the Google Places search sends radius_km * 1000 metres (5 km is sent
\* as 5000); the Yelp search sends the smaller of radius_km * 1000 and 40000,
\* so never more than 40000, and exactly 40000 for a 40 km search.
C11_RadiusConversion ==
  \A n \in RadiusRequests :
    /\ provider = GoogleName =>
         /\ requests[n].radius = radius_km * 1000
         /\ radius_km = 5 => requests[n].radius = 5000
    /\ provider = YelpName =>
         /\ requests[n].radius <= 40000
         /\ requests[n].radius =
              (IF radius_km * 1000 < 40000 THEN radius_km * 1000 ELSE 40000)
         /\ radius_km = 5 => requests[n].radius = 5000
         /\ radius_km = 40 => requests[n].radius = 40000

C11_Witness ==
  /\ provider = YelpName
  /\ radius_km = 50
  /\ Cardinality(RadiusRequests) = 2
  /\ \A n \in RadiusRequests : requests[n].radius = 40000

\* the part of an address after its '@', lower-cased
DomainOf(email) ==
  LET at == CHOOSE i \in 1..Len(email) : email[i] = "@"
  IN Lower(SubSeq(email, at + 1, Len(email)))

\* example.com, domain.com, email.com and the yourdomain domains
PlaceholderDomain(email) ==
  \/ DomainOf(email) \in {Excludes[1], Excludes[3], Excludes[4]}
  \/ Contains(DomainOf(email), Excludes[2])

\* C12: no record that a provider search returns has an Email at a
\* placeholder domain, whether the address was found on a website or came
\* with the provider's own data.
C12_NoPlaceholderEmail ==
  p_pc = "done" =>
    \A n \in 1..Len(p_out.list) :
      Truthy(p_out.list[n]["Email"]) =>
        ~PlaceholderDomain(p_out.list[n]["Email"][2])

\* the same for the two providers whose only source of an Email is
\* extract_email_from_website
DiscoveredEmailsValid ==
  (p_pc = "done" /\ provider \in {GoogleName, YelpName}) =>
    \A n \in 1..Len(p_out.list) :
      Truthy(p_out.list[n]["Email"]) =>
        ~PlaceholderDomain(p_out.list[n]["Email"][2])

\* C13: search_businesses is total: whatever the provider answers (failed
\* transport, error status, empty or incomplete body), the call returns a
\* list and raises nothing.
C13_SearchIsTotal ==
  /\ ~p_out.raised
  /\ p_pc = "done" => p_out.returned

\* the top-level calls of a search: Google's geocode and nearby search,
\* Yelp's search, OpenStreetMap's location search and Overpass query
TopLevelCalls ==
  {n \in 1..Len(responses) :
     \/ provider \in {GoogleName, OSMName} /\ n <= 2
     \/ provider = YelpName /\ n = 1}

CallFailed(n) ==
  CASE provider = GoogleName -> Get(responses[n], "status", "") # "OK"
    [] provider = YelpName -> "error" \in DOMAIN responses[n]
    [] provider = OSMName ->
         IF n = 1 THEN OSMLocationFailed(responses[1]) ELSE responses[2].failed

\* the details calls of the log, in the order they were made
DetailsCalls ==
  {n \in 1..Len(requests) : requests[n].endpoint \in {"details", "businesses/id"}}

SucceededDetails == {n \in DetailsCalls : ~CallFailed(n)}

FailedDetails == {n \in DetailsCalls : CallFailed(n)}

\* C14: a failed top-level call ends the search with an empty list and no
\* further request; a failed details call drops that candidate only: the
\* result holds one record for each details call that succeeded.
C14_HardStopSoftSkip ==
  /\ \A n \in TopLevelCalls :
       CallFailed(n) =>
         /\ p_pc = "done"
         /\ p_out = Returned(<<>>)
         /\ Len(requests) = n
  /\ (p_pc = "done" /\ FailedDetails # {}) =>
       /\ p_out.returned
       /\ Len(p_out.list) = Cardinality(SucceededDetails)

(* ------------------------------------------------------------------ *)
(* business_finder.py : the rate limit of one provider instance       *)
(*                                                                    *)
(* Time is counted in tenths of a second.  The log holds the instant  *)
(* at which each request leaves.                                      *)
(* ------------------------------------------------------------------ *)
MaxRequests == 4

\* time.time() when the instance is built
StartTimes == {100}

\* what passes between the departure of a request and the next call of the
\* instance: the answer's latency, the processing, the sleeps of the caller
Elapsed == {0, 2, 12}

\* time.sleep(t) returns after t at the earliest
Oversleep == {0, 1}

\* lines 140, 337, 527: 0.1 s, 1.0 s and 0.3 s
MinInterval(p) ==
  CASE p = GoogleName -> 1
    [] p = OSMName -> 10
    [] p = YelpName -> 3

RateInit ==
  /\ DedupIdle
  /\ AuxIdle
  /\ AppIdle
  /\ provider \in ProviderNames
  /\ p_pc = "call"
  /\ p_category = ""
  /\ radius_km = 0
  /\ min_rating = 0
  /\ web = <<>>
  /\ request_count = 0
  /\ requests = <<>>
  /\ responses = <<>>
  /\ search_result = <<>>
  /\ places = <<>>
  /\ place_i = 1
  /\ found = <<>>
  /\ p_out = [raised |-> FALSE, returned |-> FALSE, list |-> <<>>]
  /\ now \in StartTimes
  /\ last_request_time = 0

\* lines 135-141, 334-338, 524-528: how long _handle_rate_limit sleeps
SleepFor(p, time_since_last_request, count) ==
  IF time_since_last_request < MinInterval(p) /\ count > 0
    THEN MinInterval(p) - time_since_last_request
    ELSE 0

\* _make_request: _handle_rate_limit (lines 133-144, 329-341, 519-531), then
\* the request.  After its location search the OpenStreetMap instance either
\* goes on to the Overpass query or, the location not found, is called again.
RateMakeRequest ==
  /\ p_pc = "call"
  /\ Len(requests) < MaxRequests
  /\ \E over \in Oversleep, d \in Elapsed :
       LET sleep == SleepFor(provider, now - last_request_time, request_count)
           left  == IF sleep > 0 THEN now + sleep + over ELSE now
       IN /\ request_count' = request_count + 1
          /\ last_request_time' = left
          /\ requests' = Append(requests, [endpoint |-> "_make_request",
                                           at |-> left, slept |-> left - now])
          /\ now' = left + d
  /\ p_pc' \in (IF provider = OSMName THEN {"call", "overpass"} ELSE {"call"})
  /\ UNCHANGED <<provider, p_category, radius_km, min_rating, web, responses,
                 search_result, places, place_i, found, p_out>>
  /\ UNCHANGED <<dedup_vars, app_vars, aux_vars>>

\* lines 439-442: the Overpass query is posted with requests.post, outside
\* _make_request
RateOverpassPost ==
  /\ p_pc = "overpass"
  /\ Len(requests) < MaxRequests
  /\ \E d \in Elapsed :
       /\ requests' = Append(requests, [endpoint |-> "overpass",
                                        at |-> now, slept |-> 0])
       /\ now' = now + d
  /\ p_pc' = "call"
  /\ UNCHANGED <<provider, p_category, radius_km, min_rating, web,
                 request_count, responses, search_result, places, place_i,
                 found, p_out, last_request_time>>
  /\ UNCHANGED <<dedup_vars, app_vars, aux_vars>>

RateNext ==
  \/ RateMakeRequest
  \/ RateOverpassPost

SpecRate == RateInit /\ [][RateNext]_vars

\* C15: two requests that one provider instance sends one after the other are
\* at least the provider's interval apart (0.1 s Google, 0.3 s Yelp, 1.0 s
\* OpenStreetMap, the largest), and the first request is not delayed.
C15_MinimumSpacing ==
  LET interval == CASE provider = GoogleName -> 1
                    [] provider = YelpName -> 3
                    [] provider = OSMName -> 10
  IN /\ \A n \in 1..(Len(requests) - 1) :
          requests[n + 1].at - requests[n].at >= interval
     /\ Len(requests) > 0 => requests[1].slept = 0

\* C16: every call that a search sends out, to the provider or to a
\* business website, carries a bounded timeout.
C16_EveryCallHasTimeout ==
  \A n \in 1..Len(requests) : requests[n].timeout > 0

\* the page fetches of extract_email_from_website do carry one
FetchesHaveTimeout ==
  \A n \in 1..Len(requests) :
    requests[n].endpoint = "website" => requests[n].timeout = 10

\* C17: the Google client is used exactly when the selector is 'google' and
\* the Google key is set and not empty, the Yelp client exactly when the
\* selector is 'yelp' and the Yelp key is set and not empty; in every other
\* case the OpenStreetMap client is used, and the selection raises nothing.
C17_ProviderSelection ==
  /\ a_pc \in {"loop", "single"} => (api # "none" /\ response.status = 0)
  /\ api # "none" =>
       /\ api = GoogleName <=> (api_source = "google" /\ GOOGLE_API_KEY # "")
       /\ api = YelpName <=> (api_source = "yelp" /\ YELP_API_KEY # "")
       /\ api = OSMName <=>
            ~(\/ api_source = "google" /\ GOOGLE_API_KEY # ""
              \/ api_source = "yelp" /\ YELP_API_KEY # "")

C17_Witness ==
  /\ api = OSMName
  /\ api_source = "google"
  /\ GOOGLE_API_KEY = ""
  /\ YELP_API_KEY = "key"
  /\ a_pc = "single"

\* the nearby-search calls of the log, and those made for a next page
NearbyCalls == {n \in 1..Len(requests) : requests[n].endpoint = "nearbysearch"}

PageCalls == {n \in NearbyCalls : "pagetoken" \in DOMAIN requests[n]}

\* the candidates of the answer to call n that meet the rating threshold
Eligible(n) ==
  {k \in 1..Len(Get(responses[n], "results", <<>>)) :
     ~("rating" \in DOMAIN responses[n]["results"][k]
       /\ responses[n]["results"][k]["rating"] < min_rating)}

\* C18: when a Google search returns, every nearby-search answer with a
\* continuation token was followed, after the 2 s delay, by one request of the
\* next page with that token; the candidates of every page that was fetched
\* and meet the rating threshold were processed (a details request was made
\* for each); no page was requested twice and nothing was requested after a
\* failed page request.
C18_GooglePagination ==
  (p_pc = "done" /\ provider = GoogleName /\ p_out.returned) =>
    /\ \A n \in NearbyCalls :
         (Get(responses[n], "status", "") = "OK"
            /\ "next_page_token" \in DOMAIN responses[n]) =>
           \E m \in PageCalls :
             /\ m > n
             /\ requests[m].pagetoken = responses[n]["next_page_token"]
             /\ requests[m].slept = 20
    /\ \A n \in PageCalls :
         Get(responses[n], "status", "") = "OK" =>
           \A k \in Eligible(n) :
             \E m \in DetailsCalls :
               /\ m > n
               /\ "place_id" \in DOMAIN responses[n]["results"][k]
               /\ requests[m].place_id = responses[n]["results"][k]["place_id"]
    /\ \A n, m \in PageCalls :
         requests[n].pagetoken = requests[m].pagetoken => n = m
    /\ \A n \in PageCalls :
         Get(responses[n], "status", "") # "OK" => n = Len(requests)

\* the Yelp search calls of the log, and those made for a next page
YelpSearchCalls ==
  {n \in 1..Len(requests) : requests[n].endpoint = "businesses/search"}

YelpPageCalls == {n \in YelpSearchCalls : "offset" \in DOMAIN requests[n]}

OffsetOf(n) == IF "offset" \in DOMAIN requests[n] THEN requests[n].offset ELSE 0

\* the search call before call n
PreviousSearch(n) ==
  CHOOSE m \in YelpSearchCalls :
    m < n /\ \A k \in YelpSearchCalls : k < n => k <= m

\* the candidates of the answer to call n that meet the rating threshold
YelpEligible(n) ==
  {k \in 1..Len(Get(responses[n], "businesses", <<>>)) :
     /\ "rating" \in DOMAIN responses[n]["businesses"][k]
          => responses[n]["businesses"][k]["rating"] >= min_rating
     /\ "rating" \notin DOMAIN responses[n]["businesses"][k] => 0 >= min_rating
     /\ "id" \in DOMAIN responses[n]["businesses"][k]}

\* C19: when a Yelp search returns, every next-page request was made with an
\* offset below the reported total and below 1000; its offset is the previous
\* request's offset plus the number of results of the page just received,
\* so strictly greater; the candidates of each page that was fetched were
\* processed (a details request was made for each that meets the threshold);
\* and nothing was requested after a failed page request.
C19_YelpPagination ==
  (p_pc = "done" /\ provider = YelpName /\ p_out.returned) =>
    /\ \A n \in YelpPageCalls :
         LET m == PreviousSearch(n)
         IN /\ requests[n].offset < Get(responses[m], "total", 0)
            /\ requests[n].offset < 1000
            /\ requests[n].offset > OffsetOf(m)
            /\ requests[n].offset =
                 OffsetOf(m) + Len(Get(responses[m], "businesses", <<>>))
    /\ \A n \in YelpPageCalls :
         "error" \notin DOMAIN responses[n] =>
           \A k \in YelpEligible(n) :
             \E m \in DetailsCalls :
               m > n /\ requests[m].id = responses[n]["businesses"][k]["id"]
    /\ \A n \in YelpPageCalls :
         "error" \in DOMAIN responses[n] => n = Len(requests)

\* the candidates of the first answer that the loop has dealt with
Processed ==
  IF p_pc = "loop" THEN 1..(place_i - 1)
  ELSE {k \in 1..Len(places) : k <= place_i}

\* the candidate passes the rating check of its provider
PassesRatingCheck(k) ==
  IF provider = GoogleName
    THEN "rating" \in DOMAIN places[k] => places[k]["rating"] >= min_rating
    ELSE IF "rating" \in DOMAIN places[k]
           THEN places[k]["rating"] >= min_rating
           ELSE 0 >= min_rating

CarriesId(k) ==
  IF provider = GoogleName THEN "place_id" \in DOMAIN places[k]
  ELSE "id" \in DOMAIN places[k]

IdOf(k) == IF provider = GoogleName THEN places[k]["place_id"] ELSE places[k]["id"]

IdRequested(n) ==
  IF provider = GoogleName THEN requests[n].place_id ELSE requests[n].id

\* no details request is made for a candidate listed with a rating below
\* min_rating
NoDetailsBelowMinRating ==
  \A n \in DetailsCalls :
    \A k \in 1..Len(places) :
      (CarriesId(k) /\ IdOf(k) = IdRequested(n) /\ "rating" \in DOMAIN places[k])
        => places[k]["rating"] >= min_rating

\* C20 as claimed: in the Google and Yelp searches no details request is made
\* for a candidate listed below min_rating, and the number of details requests
\* equals the number of processed candidates that pass the rating check.
C20_DetailsPerPassingCandidate ==
  provider \in {GoogleName, YelpName} =>
    /\ NoDetailsBelowMinRating
    /\ Cardinality(DetailsCalls)
         = Cardinality({k \in Processed : PassesRatingCheck(k)})

\* C20 as amended: the number of details requests equals the number of
\* processed candidates that pass the rating check and carry an id.
C20_DetailsPerPassingCandidateWithId ==
  provider \in {GoogleName, YelpName} =>
    /\ NoDetailsBelowMinRating
    /\ Cardinality(DetailsCalls)
         = Cardinality({k \in Processed : PassesRatingCheck(k) /\ CarriesId(k)})

C20_Witness ==
  /\ p_pc = "done"
  /\ p_out.returned
  /\ provider = GoogleName
  /\ min_rating = 35
  /\ Len(places) = 2
  /\ place_i = 3
  /\ Cardinality(DetailsCalls) = 1
  /\ \E k \in 1..2 : "rating" \in DOMAIN places[k] /\ places[k]["rating"] < min_rating

(* ------------------------------------------------------------------ *)
(* business_finder.py : extract_email_from_website called on its own  *)
(* ------------------------------------------------------------------ *)
CapitalContactPath == <<"/", "C", "o", "n", "t", "a", "c", "t">>

\* the URLs the function is called with
EmailURLs ==
  { <<>>, HomeURL, HomeURL \o <<"/">>, HomeURL \o ContactPath,
    HomeURL \o CapitalContactPath, HomeURL \o ContactPath \o <<"/", "x">> }

\* website_url: None, '' or a URL
WebsiteArguments == {None} \cup {S(url) : url \in EmailURLs}

\* the answers to the fetch of the URL and to the fetch of its contact page
HomePages ==
  { FetchRaised, Fetched(404, <<GoodEmail>>), Fetched(200, <<>>),
    Fetched(200, <<PlaceholderEmail, GoodEmail>>),
    Fetched(200, <<CapitalPlaceholderEmail>>) }

ContactPages ==
  { FetchRaised, Fetched(404, <<GoodEmail>>), Fetched(200, <<GoodEmail>>),
    Fetched(200, <<PlaceholderEmail>>) }

EmailSites == [home : HomePages, contact : ContactPages]

EmailInit ==
  /\ DedupIdle
  /\ AppIdle
  /\ RateIdle
  /\ provider = "none"
  /\ p_pc = "idle"
  /\ p_category = ""
  /\ radius_km = 0
  /\ min_rating = 0
  /\ e_url \in WebsiteArguments
  /\ web \in { (IF e_url = None THEN <<>> ELSE e_url[2]) :> site :
                 site \in EmailSites }
  /\ request_count = 0
  /\ requests = <<>>
  /\ responses = <<>>
  /\ search_result = <<>>
  /\ places = <<>>
  /\ place_i = 1
  /\ found = <<>>
  /\ p_out = [raised |-> FALSE, returned |-> FALSE, list |-> <<>>]
  /\ e_email = None
  /\ e_pc = "call"
  /\ InstIdle
  /\ SaveIdle
  /\ CacheIdle

\* lines 55-112: one call, with the page fetches it makes
ExtractEmail ==
  /\ e_pc = "call"
  /\ e_email' = extract_email_from_website(e_url)
  /\ requests' = RequestsOf(EmailFetches(e_url))
  /\ responses' = ResponsesOf(EmailFetches(e_url))
  /\ e_pc' = "done"
  /\ UNCHANGED <<provider, p_pc, p_category, radius_km, min_rating, web,
                 request_count, search_result, places, place_i, found, p_out,
                 e_url>>
  /\ UNCHANGED <<dedup_vars, app_vars, rate_vars, inst_vars, save_vars,
                 cache_vars>>

EmailNext == ExtractEmail

SpecEmail == EmailInit /\ [][EmailNext]_vars

\* the URL the call was given ('' for None)
GivenURL == IF e_url = None THEN <<>> ELSE e_url[2]

\* an address that holds none of the excluded strings once lower-cased
Acceptable(address) ==
  ~\E n \in 1..Len(Excludes) : Contains(Lower(address), Excludes[n])

\* a page answered with success that holds an acceptable address
GaveEmail(page) ==
  /\ ~page.raised
  /\ page.status_code = 200
  /\ \E n \in 1..Len(page.emails) : Acceptable(page.emails[n])

\* C21: a call with a non-empty URL fetches at most twice; when the first
\* fetch gave no acceptable address (status other than success, no match,
\* excluded matches only, or a network error) and the URL does not contain
\* '/contact', exactly one more fetch, of '<url>/contact', is made; no such
\* fetch when the first fetch gave an acceptable address or the URL contains
\* '/contact'; an empty URL is never fetched.
C21_ContactRetry ==
  e_pc = "done" =>
    IF GivenURL = <<>> THEN Len(requests) = 0
    ELSE /\ Len(requests) \in {1, 2}
         /\ requests[1].url = GivenURL
         /\ IF ~GaveEmail(responses[1]) /\ ~Contains(GivenURL, ContactPath)
              THEN /\ Len(requests) = 2
                   /\ requests[2].url = RStrip(GivenURL) \o ContactPath
              ELSE Len(requests) = 1

\* C21 amended: as C21, but the contact page is fetched only when the first
\* fetch was answered (a network error on the first fetch ends the call
\* after one fetch), and '/contact' is looked for in the lower-cased URL.
C21_ContactRetryAfterAnswer ==
  e_pc = "done" =>
    IF GivenURL = <<>> THEN Len(requests) = 0
    ELSE /\ Len(requests) \in {1, 2}
         /\ requests[1].url = GivenURL
         /\ IF /\ ~responses[1].raised
               /\ ~GaveEmail(responses[1])
               /\ ~Contains(Lower(GivenURL), ContactPath)
              THEN /\ Len(requests) = 2
                   /\ requests[2].url = RStrip(GivenURL) \o ContactPath
              ELSE Len(requests) = 1

\* a call whose first fetch was answered 404 and that went on to the contact
\* page
C21_Witness ==
  /\ e_pc = "done"
  /\ GivenURL = HomeURL \o <<"/">>
  /\ responses[1].status_code = 404
  /\ Len(requests) = 2
  /\ requests[2].url = HomeURL \o ContactPath
  /\ e_email = S(GoodEmail)

(* ------------------------------------------------------------------ *)
(* Provenance of the records                                          *)
(* ------------------------------------------------------------------ *)
\* the records the provider calls of the request returned, in call order
ProviderReturned == ReturnedUpTo(events, Len(events))

\* in a provider search, every record collected so far and every record
\* returned names the provider that ran the search
RecordsCarryProviderName ==
  /\ \A n \in 1..Len(found) : found[n]["API Source"] = S(provider)
  /\ \A n \in 1..Len(p_out.list) : p_out.list[n]["API Source"] = S(provider)

\* C22: every record of an answer names, in 'API Source', the provider the
\* request was served with (after the choice of lines 61-67), and it is, id
\* aside, one of the records the provider returned: neither the duplicate
\* filter nor the handler changed its 'API Source'.
C22_ProvenanceKept ==
  (Searched /\ response.status = 200) =>
    \A i \in 1..Len(response.results) :
      /\ response.results[i]["API Source"] = S(api)
      /\ \E n \in 1..Len(ProviderReturned) :
           /\ StripId(response.results[i]) = ProviderReturned[n]
           /\ response.results[i]["API Source"]
                = ProviderReturned[n]["API Source"]
      /\ last_search_results[i]["API Source"] = S(api)

\* a request for Google without a key, served by OpenStreetMap over all
\* categories, whose answer lost a duplicate and names OpenStreetMap
C22_Witness ==
  /\ Searched
  /\ response.status = 200
  /\ api_source = "google"
  /\ GOOGLE_API_KEY = ""
  /\ api = OSMName
  /\ Cardinality(DedupesIn(events)) = 1
  /\ Len(response.results) >= 1
  /\ Len(response.results) < Len(all_businesses)
  /\ \A i \in 1..Len(response.results) :
       response.results[i]["API Source"] = S(OSMName)

(* ------------------------------------------------------------------ *)
(* utils/validation.py : the criteria a search accepts                *)
(* ------------------------------------------------------------------ *)
\* line 22
valid_categories ==
  {"hotel", "restaurant", "bar", "cafe", "bakery", "nightclub"}

\* line 45
valid_sources == {"google", "yelp", "osm"}

\* lines 21-24, 43-47: the errors validate_search_params reports for a
\* category and a selector
validate_search_params(cat, src) ==
  (IF cat # "" /\ cat \notin valid_categories /\ cat # "all"
     THEN {"category"} ELSE {})
    \cup (IF src \notin valid_sources THEN {"api_source"} ELSE {})

\* C23: a request whose category is outside the fixed set and not 'all', or
\* whose selector is outside the enumerated set, is answered with an error
\* before any provider call.
C23_InvalidCriteriaRejected ==
  (a_pc # "idle" /\ validate_search_params(category, api_source) # {}) =>
    /\ CallsIn(events) = {}
    /\ a_pc = "responded" => response.status # 200

\* C24: a search request with a valid category is answered 200 with its list
\* of results whatever the provider did, and a provider failure gives an
\* empty list, never a 500.
C24_SearchAnswers200 ==
  (Searched /\ category \in {"hotel", "restaurant", "bar", "cafe", "bakery", "nightclub"}) =>
    /\ response.status = 200
    /\ (\E n \in 1..Len(events) : events[n][1] = "raise") =>
         response.results = <<>>

(* ------------------------------------------------------------------ *)
(* Several search requests, each with the provider instance it builds *)
(* ------------------------------------------------------------------ *)
MaxInstances == 2
MaxInstanceRequests == 3

\* lines 118-131, 320-324, 502-514: __init__ sets the rate-limit state on
\* the new object
NewInstance(p) ==
  [provider |-> p, request_count |-> 0, last_request_time |-> 0]

\* variant: request_count and last_request_time kept on the class, so that
\* the instances of one provider share them
HandleRateLimit_OnClass(insts, i, left) ==
  [j \in 1..Len(insts) |->
     IF insts[j].provider = insts[i].provider
       THEN [insts[j] EXCEPT !.request_count = insts[i].request_count + 1,
                             !.last_request_time = left]
       ELSE insts[j]]

\* lines 143-144, 340-341, 530-531: self.request_count += 1 and
\* self.last_request_time = time.time()
HandleRateLimit(insts, i, left) ==
  [insts EXCEPT ![i].request_count = @ + 1, ![i].last_request_time = left]

InstInit ==
  /\ DedupIdle
  /\ AppIdle
  /\ EmailIdle
  /\ provider = "none"
  /\ p_pc = "idle"
  /\ p_category = ""
  /\ radius_km = 0
  /\ min_rating = 0
  /\ web = <<>>
  /\ request_count = 0
  /\ requests = <<>>
  /\ responses = <<>>
  /\ search_result = <<>>
  /\ places = <<>>
  /\ place_i = 1
  /\ found = <<>>
  /\ p_out = [raised |-> FALSE, returned |-> FALSE, list |-> <<>>]
  /\ now \in StartTimes
  /\ last_request_time = 0
  /\ instances = <<>>
  /\ search_api = <<>>
  /\ SaveIdle
  /\ CacheIdle

\* app.py lines 61-67 (services/business_service.py lines 158-164): a search
\* request is being served; the constructor call gives it a new object
InstConstruct ==
  /\ Len(instances) < MaxInstances
  /\ \E p \in ProviderNames : instances' = Append(instances, NewInstance(p))
  /\ search_api' = Append(search_api, Len(instances) + 1)
  /\ UNCHANGED <<prov_vars, rate_vars>>
  /\ UNCHANGED <<dedup_vars, app_vars, email_vars, save_vars, cache_vars>>

\* _make_request in one of the searches, on the instance its `api` names:
\* _handle_rate_limit, then the request
InstMakeRequest ==
  /\ Len(requests) < MaxInstanceRequests
  /\ \E s \in 1..Len(search_api), over \in Oversleep, d \in Elapsed :
       LET i     == search_api[s]
           self  == instances[i]
           sleep == SleepFor(self.provider, now - self.last_request_time,
                             self.request_count)
           left  == IF sleep > 0 THEN now + sleep + over ELSE now
       IN /\ instances' = HandleRateLimit(instances, i, left)
          /\ requests' = Append(requests, [endpoint |-> "_make_request",
                                           search |-> s, instance |-> i,
                                           at |-> left])
          /\ now' = left + d
  /\ UNCHANGED <<provider, p_pc, p_category, radius_km, min_rating, web,
                 request_count, responses, search_result, places, place_i,
                 found, p_out, last_request_time, search_api>>
  /\ UNCHANGED <<dedup_vars, app_vars, email_vars, save_vars, cache_vars>>

InstNext ==
  \/ InstConstruct
  \/ InstMakeRequest

SpecInstances == InstInit /\ [][InstNext]_vars

\* the requests sent through instance i, in order
RequestsThrough(i) == SelectSeq(requests, LAMBDA r : r.instance = i)

\* C25: no two search requests use the same provider instance, and the
\* rate-limit state of an instance is the product of the requests sent
\* through that instance alone: its counter is their number and its last
\* request time the departure of the latest of them (the constructor's 0
\* before the first), whatever was sent through the other instances.
C25_InstanceStateIsOwn ==
  /\ \A s, t \in 1..Len(search_api) : s # t => search_api[s] # search_api[t]
  /\ \A n \in 1..Len(requests) :
       requests[n].instance = search_api[requests[n].search]
  /\ \A i \in 1..Len(instances) :
       /\ instances[i].request_count = Len(RequestsThrough(i))
       /\ instances[i].last_request_time
            = IF RequestsThrough(i) = <<>> THEN 0
              ELSE RequestsThrough(i)[Len(RequestsThrough(i))].at

\* two instances of one provider, the requests of the second falling between
\* two requests of the first
C25_Witness ==
  /\ Len(instances) = 2
  /\ instances[1].provider = instances[2].provider
  /\ Len(requests) = 3
  /\ requests[1].instance = 1
  /\ requests[2].instance = 2
  /\ requests[3].instance = 1
  /\ instances[1].request_count = 2
  /\ instances[2].request_count = 1

\* C26: a save request after a search that gave at least one record succeeds
\* and writes the header of the thirteen columns and one row per record of
\* that search, in order; a save fails only when the search gave no record.
C26_SaveWritesLastSearch ==
  save_response.status # 0 =>
    IF Len(last_search_results) >= 1
      THEN /\ save_response.status = 200
           /\ saved_file.rows
                = <<FieldNames>>
                    \o [n \in 1..Len(last_search_results) |->
                          [i \in 1..Len(FieldNames) |->
                             last_search_results[n][FieldNames[i]]]]
      ELSE save_response.status # 200

(* ------------------------------------------------------------------ *)
(* services/business_service.py : get_businesses and its cache        *)
(*                                                                    *)
(* The criteria that end up in the cache key are tuples of tokens, so *)
(* that the key is the concatenation the f-string of line 34 makes.   *)
(* ------------------------------------------------------------------ *)
MaxCalls == 3

\* the calls get_businesses can receive: api_source, location, category,
\* radius_km, min_rating
CacheCriteria ==
  { <<"osm">>, <<"yelp">> }
    \X { <<"Rome">>, <<"Rome", ":", "hotel">> }
    \X { <<"hotel">>, <<"hotel", ":", "hotel">> }
    \X {5} \X {35}

\* line 34: f"{api_source}:{location}:{category}:{radius_km}:{min_rating}"
cache_key(src, loc, cat, rad, rat) ==
  src \o <<":">> \o loc \o <<":">> \o cat \o <<":">> \o IntStr(rad)
      \o <<":">> \o FloatStr(rat)

\* the selector and the category as the strings the handler model uses
SourceString(src) == IF src = <<"yelp">> THEN "yelp" ELSE "osm"
CategoryString(cat) == IF cat = <<"hotel">> THEN "hotel" ELSE "hotel:hotel"

\* lines 148-164
_get_api_instance(src) ==
  SelectApi(SourceString(src), GOOGLE_API_KEY, YELP_API_KEY)

CacheInit ==
  /\ DedupIdle
  /\ ProvIdle
  /\ RateIdle
  /\ EmailIdle
  /\ InstIdle
  /\ SaveIdle
  /\ GOOGLE_API_KEY = ""
  /\ YELP_API_KEY = "key"
  /\ category = ""
  /\ api_source = ""
  /\ api = "none"
  /\ a_pc = "idle"
  /\ cat_i = 1
  /\ all_businesses = <<>>
  /\ app_businesses = <<>>
  /\ last_search_results = <<>>
  /\ response = [status |-> 0]
  /\ events = <<>>
  /\ _api_cache = <<>>
  /\ c_log = <<>>

\* the entry of c_log for one call
Called(criteria, searched, raised, result) ==
  [criteria |-> criteria, searched |-> searched, raised |-> raised,
   result |-> result]

\* line 37: cache_key in _api_cache
CacheHit(key, cache) == key \in DOMAIN cache

\* lines 19-57
GetBusinesses ==
  /\ Len(c_log) < MaxCalls
  /\ \E criteria \in CacheCriteria :
       LET key == cache_key(criteria[1], criteria[2], criteria[3],
                            criteria[4], criteria[5])
       IN IF CacheHit(key, _api_cache)
            THEN /\ c_log' = Append(c_log, Called(criteria, FALSE, FALSE,
                                                  _api_cache[key]))
                 /\ UNCHANGED _api_cache
            ELSE \E out \in ProviderOutcomes(_get_api_instance(criteria[1]),
                                             CategoryString(criteria[3])) :
                   IF out.raised
                     THEN /\ c_log' = Append(c_log, Called(criteria, TRUE,
                                                           TRUE, <<>>))
                          /\ UNCHANGED _api_cache
                     ELSE LET filtered_businesses
                                == filter_duplicate_businesses(out.list)
                          IN /\ _api_cache'
                                  = (key :> filtered_businesses) @@ _api_cache
                             /\ c_log' = Append(c_log,
                                                Called(criteria, TRUE, FALSE,
                                                       filtered_businesses))
  /\ UNCHANGED <<dedup_vars, app_vars, prov_vars, rate_vars, email_vars,
                 inst_vars, save_vars>>

CacheNext == GetBusinesses

SpecCache == CacheInit /\ [][CacheNext]_vars

\* call m stored its collection
Stored(m) == c_log[m].searched /\ ~c_log[m].raised

KeyOf(criteria) ==
  criteria[1] \o <<":">> \o criteria[2] \o <<":">> \o criteria[3]
    \o <<":">> \o IntStr(criteria[4]) \o <<":">> \o FloatStr(criteria[5])

\* C27: get_businesses caches by the five criteria.  A call asks the
\* provider exactly when no earlier call with identical criteria stored a
\* collection, and otherwise returns that stored collection, empty or not;
\* a stored entry stays as it was stored; and the entry of any criteria was
\* stored by a call with those criteria.
C27_CachedByCriteria ==
  /\ \A n \in 1..Len(c_log) :
       LET earlier == {m \in 1..(n - 1) :
                         Stored(m) /\ c_log[m].criteria = c_log[n].criteria}
       IN /\ c_log[n].searched = (earlier = {})
          /\ \A m \in earlier : c_log[n].result = c_log[m].result
  /\ \A m \in 1..Len(c_log) :
       Stored(m) =>
         /\ KeyOf(c_log[m].criteria) \in DOMAIN _api_cache
         /\ _api_cache[KeyOf(c_log[m].criteria)] = c_log[m].result
  /\ \A criteria \in CacheCriteria :
       KeyOf(criteria) \in DOMAIN _api_cache =>
         \E m \in 1..Len(c_log) :
           Stored(m) /\ c_log[m].criteria = criteria

\* the same with the key in place of the criteria: what the code keeps
CachedByKey ==
  /\ \A n \in 1..Len(c_log) :
       LET earlier == {m \in 1..(n - 1) :
                         Stored(m) /\ KeyOf(c_log[m].criteria)
                                        = KeyOf(c_log[n].criteria)}
       IN /\ c_log[n].searched = (earlier = {})
          /\ \A m \in earlier : c_log[n].result = c_log[m].result
  /\ \A m \in 1..Len(c_log) :
       Stored(m) =>
         /\ KeyOf(c_log[m].criteria) \in DOMAIN _api_cache
         /\ _api_cache[KeyOf(c_log[m].criteria)] = c_log[m].result

(* ------------------------------------------------------------------ *)
(* The duplicate filter: what it returns and what it leaves alone     *)
(* ------------------------------------------------------------------ *)
IdentitiesOf(list) == {IdentityOf(list[n]) : n \in 1..Len(list)}

\* every output record is one of the input records, field for field, and the
\* output has the identities of the input, no more and no fewer
OutputFromInput ==
  d_pc = "done" =>
    /\ \A j \in 1..Len(d_result) :
         \E i \in 1..Len(businesses) :
           /\ d_result[j] = businesses[i]
           /\ IdentityOf(d_result[j]) = IdentityOf(businesses[i])
    /\ IdentitiesOf(d_result) = IdentitiesOf(businesses)

\* C28: the duplicate filter neither fabricates nor merges and has no side
\* effect: every output record is identical to an input record with the same
\* identity, the identities of the output are those of the input, and the
\* input list is the same after the call as before.
C28_NoFabricationNoSideEffect ==
  []OutputFromInput /\ [][businesses' = businesses]_vars

\* three records of two identities; the first was replaced by a later one
C28_Witness ==
  /\ d_pc = "done"
  /\ Len(businesses) = 3
  /\ Len(d_result) = 2
  /\ IdentityOf(businesses[1]) = IdentityOf(businesses[2])
  /\ d_result[1] = businesses[2]
  /\ d_result[1] # businesses[1]
  /\ d_result[2] = businesses[3]

\* the input in another order
Permuted(list, order) == [n \in 1..Len(list) |-> list[order[n]]]

\* one record has an email and no phone, the other a phone and no email
RulesConflict(a, b) ==
  /\ HasEmail(a) /\ ~HasPhone(a)
  /\ ~HasEmail(b) /\ HasPhone(b)

====
